---- MODULE Spec2Model ----
(***************************************************************************)
(* Tile-grid water flow: the per-tick simulation engine                    *)
(* (SimulationEngine.tick, MovementResolver, WaterPruner) over a GridWorld *)
(* produced by parse_level, with a SimulationState of water and            *)
(* sink_claims.                                                            *)
(*                                                                         *)
(* Coordinates are <<x, y>>.  A WaterCell is a record                      *)
(* [dx, dy, age, emitter_id, prefer_left]; an Emitter is a record          *)
(* [id, x, y, dx, dy].  Python dicts are functions; where the code         *)
(* iterates a dict the iteration order is an explicit sequence of keys.    *)
(***************************************************************************)
EXTENDS Integers, Sequences, FiniteSets, TLC

VARIABLES
    w, h, walls, emitters, sinks,   \* the GridWorld handed to tick
    step_ms, decay_ms,              \* SimulationEngine fields
    water, sink_claims,             \* SimulationState fields
    ticks,                          \* number of ticks run so far
    idle,                           \* per cell: consecutive ticks it stayed without refresh
    log,                            \* what the last tick did (proposals, edges, fates)
    cmd,                            \* the script command run last and the last wall edit
    pending,                        \* ticks the running wait command has still to run
    out,                            \* the grid AsciiRenderer.render returned last
    states,                         \* the SimulationState instances: the dicts each refers to
    heap,                           \* the dict objects, by reference
    active,                         \* the instance whose dicts are in water and sink_claims
    parked,                         \* per instance, its state when it was last ticked
    frames,                         \* the calls of _move_succeeds of the last tick
    pruned,                         \* the dicts of a call of WaterPruner.prune
    read_steps                      \* the value read from the property decay_steps

vars == <<w, h, walls, emitters, sinks, step_ms, decay_ms, water, sink_claims,
          ticks, idle, log, cmd, pending, out, states, heap, active, parked, frames, pruned,
          read_steps>>

script_vars == <<cmd, pending>>

pair_vars == <<states, heap, active, parked>>

world_vars == <<w, h, walls, emitters, sinks, step_ms, decay_ms>>

-----------------------------------------------------------------------------
(* Bounds *)

MaxTicks == 9

PermCap == 3

\* the number of add and remove commands of a script
MaxEdits == 1

\* the number of ticks a script runs
MaxDslTicks == 5

\* the number of ticks each of two instances runs
MaxPairTicks == 4

\* the number of cells of a water map handed to render
MaxRenderWater == 1

\* the bits of the mantissa of a float (53 in CPython), on the scale of the
\* integers of the model: the engines' 120, 200 and 250 are floats as they are
FloatBits == 8

\* the largest decay_ms an engine is constructed with
MaxDecayMs == 520

\* the number of tiles of the water maps handed to prune
MaxPruneTiles == 6

\* the nesting of calls the interpreter allows before it raises RecursionError
\* (sys.getrecursionlimit(), 1000 by default), on the scale of the levels below
RecursionLimit == 3

-----------------------------------------------------------------------------
(* Generic helpers for dicts, sequences and tuples *)

None == -1

EmptyMap == [x \in {} |-> 0]

Get(f, k) == IF k \in DOMAIN f THEN f[k] ELSE None

GetOr(f, k, default) == IF k \in DOMAIN f THEN f[k] ELSE default

Put(f, k, v) == [x \in (DOMAIN f) \cup {k} |-> IF x = k THEN v ELSE f[x]]

Range(s) == {s[i] : i \in DOMAIN s}

Abs(n) == IF n < 0 THEN -n ELSE n

Max(a, b) == IF a >= b THEN a ELSE b

\* Python tuple comparison a < b for equal-length integer tuples
RECURSIVE LexLess(_, _)
LexLess(a, b) ==
    IF a = <<>> THEN FALSE
    ELSE IF Head(a) # Head(b) THEN Head(a) < Head(b)
    ELSE LexLess(Tail(a), Tail(b))

\* Python min(seq, key=...): the first element whose key is minimal
RECURSIVE MinIndex(_, _, _)
MinIndex(keys, i, best) ==
    IF i > Len(keys) THEN best
    ELSE MinIndex(keys, i + 1, IF LexLess(keys[i], keys[best]) THEN i ELSE best)

\* all orders (sequences without repetition) of a finite set
Perms(S) == {s \in [1..Cardinality(S) -> S] : \A i, j \in DOMAIN s : i # j => s[i] # s[j]}

\* the elements of S sorted ascending by an integer rank that is injective on S
RECURSIVE SortBy(_, _)
SortBy(S, rank) ==
    IF S = {} THEN <<>>
    ELSE LET m == CHOOSE a \in S : \A b \in S : rank[a] <= rank[b]
         IN <<m>> \o SortBy(S \ {m}, rank)

-----------------------------------------------------------------------------
(* Level text and parse_level *)

DIRS == [c \in {"^", ">", "v", "<"} |->
            CASE c = "^" -> <<0, -1>>
              [] c = ">" -> <<1, 0>>
              [] c = "v" -> <<0, 1>>
              [] c = "<" -> <<-1, 0>>]

SINK == "S"

Emitter(id, x, y, dx, dy) == [id |-> id, x |-> x, y |-> y, dx |-> dx, dy |-> dy]

RECURSIVE ScanLevel(_, _, _, _)
ScanLevel(lines, y, x, acc) ==
    IF y >= Len(lines) THEN acc
    ELSE IF x >= Len(lines[y + 1]) THEN ScanLevel(lines, y + 1, 0, acc)
    ELSE LET ch == lines[y + 1][x + 1]
             nxt == IF ch = "#" THEN [acc EXCEPT !.walls = @ \cup {<<x, y>>}]
                    ELSE IF ch \in DOMAIN DIRS
                         THEN [acc EXCEPT !.emitters =
                                  Append(@, Emitter(Len(@), x, y, DIRS[ch][1], DIRS[ch][2]))]
                    ELSE IF ch = SINK THEN [acc EXCEPT !.sinks = @ \cup {<<x, y>>}]
                    ELSE acc
         IN ScanLevel(lines, y, x + 1, nxt)

RECURSIVE MaxLen(_, _)
MaxLen(lines, i) ==
    IF i > Len(lines) THEN 0 ELSE Max(Len(lines[i]), MaxLen(lines, i + 1))

parse_level(lines) ==
    ScanLevel(lines, 0, 0,
              [w |-> MaxLen(lines, 1), h |-> Len(lines),
               walls |-> {}, emitters |-> <<>>, sinks |-> {}])

\* The levels the model runs.  Each row is a tuple of one-character strings.
Levels == <<
    \* 1: drain into a sink along one row
    << <<"#", ">", ".", ".", "S", "#">> >>,
    \* 2: two streams meet head-on on one empty tile
    << <<">", ".", ".", ".", "<">> >>,
    \* 3: two streams cross, both moving straight
    << <<".", ".", "v">>,
       <<".", ".", ".">>,
       <<">", ".", ".">> >>,
    \* 4: two blocked cells turn into the same tile
    << <<">", ".", "#">>,
       <<".", ".", ".">>,
       <<"^", ".", ".">> >>,
    \* 5: a walled 2x2 room fed by one emitter (closed loop of four cells)
    << <<"#", "#", "#", "#">>,
       <<">", ".", ".", "#">>,
       <<"#", ".", ".", "#">>,
       <<"#", "#", "#", "#">> >>,
    \* 6: two emitters contest one sink, the first in row-major order is nearer
    << <<">", ".", "S", ".", "<">> >>,
    \* 7: two emitters contest one sink, the second is nearer
    << <<">", ".", ".", ".", "S", ".", "<">> >>,
    \* 8: a turning cell and a straight cell contest one sink
    << <<">", ".", "#", ".">>,
       <<".", "S", ".", "<">> >>,
    \* 9: open ground, streams cross and fragments detach
    << <<".", "v", ".", ".">>,
       <<".", ".", ".", "<">> >>,
    \* 10: two streams side by side and one coming up against them
    << <<">", "v">>,
       <<".", ".">>,
       <<".", ".">>,
       <<".", "^">> >>,
    \* 11: two streams that meet at a corner
    << <<"#", ">", ".">>,
       <<".", ".", ".">>,
       <<".", ".", "^">> >>,
    \* 12: a dead end
    << <<">", ".", ".", "#">> >>,
    \* 13: two sinks; the loser of one sink turns to the other and the board drains
    << <<".", "v", ".", "<">>,
       <<"S", ".", "S", ".">> >>,
    \* 14: a cell follows another emitter's cell up to the sink that one claimed
    << <<".", "S">>,
       <<">", ".">>,
       <<">", ".">> >>,
    \* 15: three streams on open ground; the winner of a collision is cut off
    << <<">", ".", ".", "v">>,
       <<".", ".", "^", ".">>,
       <<".", ".", ".", ".">>,
       <<".", ".", ".", ".">> >>,
    \* 16: three streams; a cell keeps losing a tile until it evaporates
    << <<".", "v", ".", "#">>,
       <<"v", ".", ".", ".">>,
       <<".", ".", ".", "^">> >>,
    \* 17: the board drains while a sink is claimed and the claim is not renewed
    << <<".", "S", "v">>,
       <<">", ".", ".">> >>,
    \* 18: a closed loop of four cells of two emitters
    << <<".", ".", "<", ".">>,
       <<".", ".", ".", ".">>,
       <<">", ".", ".", "<">> >>,
    \* 19: a cell against a dead end is cut off from its stream by another stream
    << <<".", ".", "v">>,
       <<">", ".", ".">>,
       <<".", ".", ".">>,
       <<".", "^", ".">> >>,
    \* 20: an emitter facing a dead end of one tile
    << <<">", ".", "#">> >>,
    \* 21: a corridor in which the stream backs up from a dead end
    << <<">", ".", ".", ".", "#">> >>,
    \* 22: a stream that turns at the edge of open ground
    << <<">", ".", ".">>,
       <<".", ".", ".">> >>,
    \* 23: two emitters that face the same tile
    << <<">", ".", "<">>,
       <<".", ".", ".">> >>,
    \* 24: emitters that face the grid edge, a sink, a wall and an emitter
    << <<"<", "S", "<">>,
       <<">", "#", ".">>,
       <<".", ".", "^">> >>,
    \* 25: a cell comes back to the forward tile of its emitter while a cell of
    \* another emitter proposes it
    << <<"^", ".", ".", "#">>,
       <<">", ".", ".", "<">>,
       <<"#", ".", ".", "#">> >>,
    \* 26: a circling stream leaves a cell next to its emitter, apart from the
    \* cell that has just left the forward tile
    << <<"#", ".", ".">>,
       <<">", ".", ".">>,
       <<".", ".", ".">> >>,
    \* 27: two new cells swap head-on and pruning drops the one that has come
    \* apart from its emitter's nearest cell
    << <<">", ".", ".", "<">>,
       <<".", ".", ".", ".">> >>
>>

\* (step_ms, decay_ms) of the engines the model runs; the first is the default
Engines == {<<120, 250>>, <<120, 200>>, <<120, 120>>}

-----------------------------------------------------------------------------
(* MovementResolver *)

in_bounds(x, y, ww, hh) == 0 <= x /\ x < ww /\ 0 <= y /\ y < hh

WaterCell(dx, dy, age, emitter_id, prefer_left) ==
    [dx |-> dx, dy |-> dy, age |-> age, emitter_id |-> emitter_id,
     prefer_left |-> prefer_left]

emitter_positions == {<<emitters[i].x, emitters[i].y>> : i \in DOMAIN emitters}

\* prev_owner taken after the spawning: a tile spawned on has the owner of the
\* first emitter of the list that faces it
prev_owner_after_spawn(wat) ==
    LET fwd(i) == <<emitters[i].x + emitters[i].dx, emitters[i].y + emitters[i].dy>>
        free(t) == /\ 0 <= t[1] /\ t[1] < w /\ 0 <= t[2] /\ t[2] < h
                   /\ t \notin walls \cup sinks \cup emitter_positions
                   /\ t \notin DOMAIN wat
        first(t) == CHOOSE i \in DOMAIN emitters :
                        fwd(i) = t /\ \A j \in DOMAIN emitters : fwd(j) = t => i <= j
        tiles == {fwd(i) : i \in {j \in DOMAIN emitters : free(fwd(j))}}
    IN [pos \in DOMAIN wat \cup tiles |->
           IF pos \in DOMAIN wat THEN wat[pos].emitter_id ELSE emitters[first(pos)].id]

\* the owners recorded when the resolver is built, before the spawning

prev_owner(wat) == [pos \in DOMAIN wat |-> wat[pos].emitter_id]

\* spawn_from_emitters that does not record its own spawns as occupied
RECURSIVE spawn_from_emitters_forgets_spawns(_, _, _)
spawn_from_emitters_forgets_spawns(i, wat, occupied) ==
    IF i > Len(emitters) THEN wat
    ELSE LET emitter == emitters[i]
             tx == emitter.x + emitter.dx
             ty == emitter.y + emitter.dy
             skip == \/ ~in_bounds(tx, ty, w, h)
                     \/ <<tx, ty>> \in walls
                     \/ <<tx, ty>> \in occupied
                     \/ <<tx, ty>> \in emitter_positions
                     \/ <<tx, ty>> \in sinks
         IN IF skip THEN spawn_from_emitters_forgets_spawns(i + 1, wat, occupied)
            ELSE spawn_from_emitters_forgets_spawns(
                     i + 1,
                     Put(wat, <<tx, ty>>,
                         WaterCell(emitter.dx, emitter.dy, 0, emitter.id, TRUE)),
                     occupied)

\* the loop of spawn_from_emitters from emitter i on; returns the water map
RECURSIVE spawn_from_emitters(_, _, _)
spawn_from_emitters(i, wat, occupied) ==
    IF i > Len(emitters) THEN wat
    ELSE LET emitter == emitters[i]
             tx == emitter.x + emitter.dx
             ty == emitter.y + emitter.dy
             skip == \/ ~in_bounds(tx, ty, w, h)
                     \/ <<tx, ty>> \in walls
                     \/ <<tx, ty>> \in occupied
                     \/ <<tx, ty>> \in emitter_positions
                     \/ <<tx, ty>> \in sinks
         IN IF skip THEN spawn_from_emitters(i + 1, wat, occupied)
            ELSE spawn_from_emitters(
                     i + 1,
                     Put(wat, <<tx, ty>>,
                         WaterCell(emitter.dx, emitter.dy, 0, emitter.id, TRUE)),
                     occupied \cup {<<tx, ty>>})

Proposal(nx, ny, ndx, ndy, eid, pref_left) ==
    [nx |-> nx, ny |-> ny, ndx |-> ndx, ndy |-> ndy, eid |-> eid,
     pref_left |-> pref_left]

\* a tile a cell of this owner cannot turn onto (the loop body's continue cases)
TurnBlocked(nx, ny, cell, claims) ==
    \/ ~in_bounds(nx, ny, w, h)
    \/ <<nx, ny>> \in walls
    \/ <<nx, ny>> \in emitter_positions
    \/ /\ <<nx, ny>> \in sinks
       /\ Get(claims, <<nx, ny>>) # None
       /\ Get(claims, <<nx, ny>>) # cell.emitter_id

\* forward_blocked that forgets the walls
forward_blocked_no_walls(fx, fy, cell, claims) ==
    \/ ~in_bounds(fx, fy, w, h)
    \/ <<fx, fy>> \in emitter_positions
    \/ /\ <<fx, fy>> \in sinks
       /\ Get(claims, <<fx, fy>>) # None
       /\ Get(claims, <<fx, fy>>) # cell.emitter_id

\* forward_blocked that forgets the sink claims
forward_blocked_no_claims(fx, fy, cell, claims) ==
    \/ ~in_bounds(fx, fy, w, h)
    \/ <<fx, fy>> \in walls
    \/ <<fx, fy>> \in emitter_positions

\* forward_blocked that takes every claimed sink as blocked, the cell's own too
forward_blocked_any_claim(fx, fy, cell, claims) ==
    \/ ~in_bounds(fx, fy, w, h)
    \/ <<fx, fy>> \in walls
    \/ <<fx, fy>> \in emitter_positions
    \/ /\ <<fx, fy>> \in sinks
       /\ Get(claims, <<fx, fy>>) # None

\* forward_blocked of _propose_move
forward_blocked(fx, fy, cell, claims) ==
    \/ ~in_bounds(fx, fy, w, h)
    \/ <<fx, fy>> \in walls
    \/ <<fx, fy>> \in emitter_positions
    \/ /\ <<fx, fy>> \in sinks
       /\ Get(claims, <<fx, fy>>) # None
       /\ Get(claims, <<fx, fy>>) # cell.emitter_id

\* _propose_move that takes the turn from the blocked forward tile
_propose_move_turn_from_forward(position, cell, claims) ==
    LET x == position[1]
        y == position[2]
        fx == x + cell.dx
        fy == y + cell.dy
        left == <<cell.dy, -cell.dx>>
        right == <<-cell.dy, cell.dx>>
        turn_order == IF cell.prefer_left THEN <<left, right>> ELSE <<right, left>>
        viable == {k \in 1..2 :
                     ~TurnBlocked(fx + turn_order[k][1], fy + turn_order[k][2], cell, claims)}
    IN IF ~forward_blocked(fx, fy, cell, claims)
       THEN Proposal(fx, fy, cell.dx, cell.dy, cell.emitter_id, cell.prefer_left)
       ELSE IF viable # {}
       THEN LET k == CHOOSE a \in viable : \A b \in viable : a <= b
                ndx == turn_order[k][1]
                ndy == turn_order[k][2]
            IN Proposal(fx + ndx, fy + ndy, ndx, ndy, cell.emitter_id, ~cell.prefer_left)
       ELSE Proposal(x, y, cell.dx, cell.dy, cell.emitter_id, cell.prefer_left)

\* _propose_move that turns without toggling prefer_left
_propose_move_keeps_preference(position, cell, claims) ==
    LET x == position[1]
        y == position[2]
        fx == x + cell.dx
        fy == y + cell.dy
        left == <<cell.dy, -cell.dx>>
        right == <<-cell.dy, cell.dx>>
        turn_order == IF cell.prefer_left THEN <<left, right>> ELSE <<right, left>>
        viable == {k \in 1..2 :
                     ~TurnBlocked(x + turn_order[k][1], y + turn_order[k][2], cell, claims)}
    IN IF ~forward_blocked(fx, fy, cell, claims)
       THEN Proposal(fx, fy, cell.dx, cell.dy, cell.emitter_id, cell.prefer_left)
       ELSE IF viable # {}
       THEN LET k == CHOOSE a \in viable : \A b \in viable : a <= b
                ndx == turn_order[k][1]
                ndy == turn_order[k][2]
            IN Proposal(x + ndx, y + ndy, ndx, ndy, cell.emitter_id, cell.prefer_left)
       ELSE Proposal(x, y, cell.dx, cell.dy, cell.emitter_id, cell.prefer_left)

\* the proposal of one cell: forward, else the first viable turn, else stay

_propose_move(position, cell, claims) ==
    LET x == position[1]
        y == position[2]
        fx == x + cell.dx
        fy == y + cell.dy
        left == <<cell.dy, -cell.dx>>
        right == <<-cell.dy, cell.dx>>
        turn_order == IF cell.prefer_left THEN <<left, right>> ELSE <<right, left>>
        viable == {k \in 1..2 :
                     ~TurnBlocked(x + turn_order[k][1], y + turn_order[k][2], cell, claims)}
    IN IF ~forward_blocked(fx, fy, cell, claims)
       THEN Proposal(fx, fy, cell.dx, cell.dy, cell.emitter_id, cell.prefer_left)
       ELSE IF viable # {}
       THEN LET k == CHOOSE a \in viable : \A b \in viable : a <= b
                ndx == turn_order[k][1]
                ndy == turn_order[k][2]
            IN Proposal(x + ndx, y + ndy, ndx, ndy, cell.emitter_id, ~cell.prefer_left)
       ELSE Proposal(x, y, cell.dx, cell.dy, cell.emitter_id, cell.prefer_left)

build_proposals(wat, claims) ==
    [position \in DOMAIN wat |-> _propose_move(position, wat[position], claims)]

Target(p) == <<p.nx, p.ny>>

Mover(src, p) ==
    [src |-> src, ndx |-> p.ndx, ndy |-> p.ndy, eid |-> p.eid, pref_left |-> p.pref_left]

\* targets dict of group_targets: per target the movers in proposal order
group_targets(proposals, ord) ==
    LET srcs(t) == SelectSeq(ord, LAMBDA s : Target(proposals[s]) = t)
    IN [t \in {Target(proposals[s]) : s \in DOMAIN proposals} |->
           [k \in 1..Len(srcs(t)) |-> Mover(srcs(t)[k], proposals[srcs(t)[k]])]]

\* key order of the targets dict: targets by first appearance in proposal order
RECURSIVE target_order(_, _, _, _)
target_order(proposals, ord, i, acc) ==
    IF i > Len(ord) THEN acc
    ELSE LET t == Target(proposals[ord[i]])
         IN target_order(proposals, ord, i + 1,
                         IF t \in Range(acc) THEN acc ELSE Append(acc, t))

\* build_inflow_targets that counts a cell's own stay proposal as inflow
build_inflow_targets_with_self(targets) ==
    [tgt \in DOMAIN targets |-> {targets[tgt][k].eid : k \in DOMAIN targets[tgt]}]

\* inflow set per target: the owner ids of the movers that come from another tile
build_inflow_targets(targets) ==
    LET incoming_ids(tgt) ==
            {targets[tgt][k].eid : k \in {j \in DOMAIN targets[tgt] : targets[tgt][j].src # tgt}}
    IN [tgt \in {t \in DOMAIN targets : incoming_ids(t) # {}} |-> incoming_ids(tgt)]

Edge(tgt, m) ==
    [tgt |-> tgt, ndx |-> m.ndx, ndy |-> m.ndy, eid |-> m.eid, pref_left |-> m.pref_left]

\* sink_key without the source position: the first mover in dict order wins
sink_key_no_tiebreak(m, tgt, claims) ==
    <<IF Get(claims, tgt) = m.eid THEN 0 ELSE 1>>

\* sink_key that compares the source column before the source row
sink_key_column_first(m, tgt, claims) ==
    <<IF Get(claims, tgt) = m.eid THEN 0 ELSE 1, m.src[1], m.src[2]>>

\* key of the min over the movers of a sink
sink_key(m, tgt, claims) ==
    <<IF Get(claims, tgt) = m.eid THEN 0 ELSE 1, m.src[2], m.src[1]>>

\* priority without the source position as the last tie-break
priority_no_tiebreak(move, tgt, wat, powner) ==
    LET cell == IF move.src \in DOMAIN wat THEN wat[move.src]
                ELSE WaterCell(move.ndx, move.ndy, 0, move.eid, move.pref_left)
        straight == <<move.ndx, move.ndy>> = <<cell.dx, cell.dy>>
        owner_bonus == IF Get(powner, tgt) = move.eid THEN 0 ELSE 1
    IN <<owner_bonus, IF straight THEN 0 ELSE 1>>

\* priority that compares the source column before the source row
priority_column_first(move, tgt, wat, powner) ==
    LET cell == IF move.src \in DOMAIN wat THEN wat[move.src]
                ELSE WaterCell(move.ndx, move.ndy, 0, move.eid, move.pref_left)
        straight == <<move.ndx, move.ndy>> = <<cell.dx, cell.dy>>
        owner_bonus == IF Get(powner, tgt) = move.eid THEN 0 ELSE 1
    IN <<owner_bonus, IF straight THEN 0 ELSE 1, move.src[1], move.src[2]>>

\* priority that prefers a turning mover to one moving straight
priority_turn_first(move, tgt, wat, powner) ==
    LET cell == IF move.src \in DOMAIN wat THEN wat[move.src]
                ELSE WaterCell(move.ndx, move.ndy, 0, move.eid, move.pref_left)
        straight == <<move.ndx, move.ndy>> = <<cell.dx, cell.dy>>
        owner_bonus == IF Get(powner, tgt) = move.eid THEN 0 ELSE 1
    IN <<owner_bonus, IF straight THEN 1 ELSE 0, move.src[2], move.src[1]>>

\* key of the min over the movers of a non-sink tile
priority(move, tgt, wat, powner) ==
    LET cell == IF move.src \in DOMAIN wat THEN wat[move.src]
                ELSE WaterCell(move.ndx, move.ndy, 0, move.eid, move.pref_left)
        straight == <<move.ndx, move.ndy>> = <<cell.dx, cell.dy>>
        owner_bonus == IF Get(powner, tgt) = move.eid THEN 0 ELSE 1
    IN <<owner_bonus, IF straight THEN 0 ELSE 1, move.src[2], move.src[1]>>

\* _select_edges that records a claim for every target, sink or not
RECURSIVE _select_edges_claims_all(_, _, _, _, _, _, _)
_select_edges_claims_all(targets, torder, i, edges, claims, wat, powner) ==
    IF i > Len(torder) THEN [edges |-> edges, sink_claims |-> claims]
    ELSE LET tgt == torder[i]
             movers == targets[tgt]
             keys == IF tgt \in sinks
                     THEN [k \in DOMAIN movers |-> sink_key(movers[k], tgt, claims)]
                     ELSE [k \in DOMAIN movers |-> priority(movers[k], tgt, wat, powner)]
             win == IF Len(movers) = 1 THEN movers[1] ELSE movers[MinIndex(keys, 2, 1)]
         IN _select_edges_claims_all(targets, torder, i + 1,
                                     Put(edges, win.src, Edge(tgt, win)),
                                     Put(claims, tgt, win.eid), wat, powner)

\* the loop of _select_edges from target i on; returns the edges and the
\* sink_claims it has written
RECURSIVE _select_edges(_, _, _, _, _, _, _)
_select_edges(targets, torder, i, edges, claims, wat, powner) ==
    IF i > Len(torder) THEN [edges |-> edges, sink_claims |-> claims]
    ELSE LET tgt == torder[i]
             movers == targets[tgt]
             keys == IF tgt \in sinks
                     THEN [k \in DOMAIN movers |-> sink_key(movers[k], tgt, claims)]
                     ELSE [k \in DOMAIN movers |-> priority(movers[k], tgt, wat, powner)]
             win == IF Len(movers) = 1 THEN movers[1] ELSE movers[MinIndex(keys, 2, 1)]
         IN _select_edges(targets, torder, i + 1,
                          Put(edges, win.src, Edge(tgt, win)),
                          IF tgt \in sinks THEN Put(claims, tgt, win.eid) ELSE claims,
                          wat, powner)

\* _move_succeeds that treats a target on the active path as a failed move
RECURSIVE _move_succeeds_cycle_fails(_, _, _, _, _)
_move_succeeds_cycle_fails(src, edges, occupied_now, memo, visiting) ==
    IF src \in DOMAIN memo
    THEN [ok |-> memo[src], memo |-> memo, visiting |-> visiting, calls |-> 1]
    ELSE IF src \notin DOMAIN edges
    THEN [ok |-> FALSE, memo |-> Put(memo, src, FALSE), visiting |-> visiting,
          calls |-> 1]
    ELSE LET tgt == edges[src].tgt
         IN IF \/ tgt \in sinks
               \/ tgt \notin occupied_now
               \/ tgt = src
            THEN [ok |-> TRUE, memo |-> Put(memo, src, TRUE), visiting |-> visiting,
                  calls |-> 1]
            ELSE IF tgt \in visiting
            THEN [ok |-> FALSE, memo |-> Put(memo, src, FALSE), visiting |-> visiting,
          calls |-> 1]
            ELSE LET r == _move_succeeds_cycle_fails(tgt, edges, occupied_now, memo,
                                                     visiting \cup {tgt})
                 IN [ok |-> r.ok, memo |-> Put(r.memo, src, r.ok),
                     visiting |-> r.visiting \ {tgt}, calls |-> r.calls + 1]

\* _move_succeeds in which two cells that move onto each other's tile block
\* each other
RECURSIVE _move_succeeds_no_swap(_, _, _, _, _)
_move_succeeds_no_swap(src, edges, occupied_now, memo, visiting) ==
    IF src \in DOMAIN memo
    THEN [ok |-> memo[src], memo |-> memo, visiting |-> visiting, calls |-> 1]
    ELSE IF src \notin DOMAIN edges
    THEN [ok |-> FALSE, memo |-> Put(memo, src, FALSE), visiting |-> visiting,
          calls |-> 1]
    ELSE LET tgt == edges[src].tgt
         IN IF /\ tgt # src
               /\ tgt \in DOMAIN edges
               /\ edges[tgt].tgt = src
            THEN [ok |-> FALSE, memo |-> Put(memo, src, FALSE), visiting |-> visiting,
                  calls |-> 1]
            ELSE IF \/ tgt \in sinks
                    \/ tgt \notin occupied_now
                    \/ tgt = src
                    \/ tgt \in visiting
            THEN [ok |-> TRUE, memo |-> Put(memo, src, TRUE), visiting |-> visiting,
                  calls |-> 1]
            ELSE LET r == _move_succeeds_no_swap(tgt, edges, occupied_now, memo,
                                                 visiting \cup {tgt})
                 IN [ok |-> r.ok, memo |-> Put(r.memo, src, r.ok),
                     visiting |-> r.visiting \ {tgt}, calls |-> r.calls + 1]

\* _move_succeeds that refuses the move of a cell spawned in this tick
RECURSIVE _move_succeeds_holds_spawns(_, _, _, _, _)
_move_succeeds_holds_spawns(src, edges, occupied_now, memo, visiting) ==
    IF src \in DOMAIN memo
    THEN [ok |-> memo[src], memo |-> memo, visiting |-> visiting, calls |-> 1]
    ELSE IF src \notin DOMAIN edges \/ src \notin DOMAIN water
    THEN [ok |-> FALSE, memo |-> Put(memo, src, FALSE), visiting |-> visiting,
          calls |-> 1]
    ELSE LET tgt == edges[src].tgt
         IN IF \/ tgt \in sinks
               \/ tgt \notin occupied_now
               \/ tgt = src
               \/ tgt \in visiting
            THEN [ok |-> TRUE, memo |-> Put(memo, src, TRUE), visiting |-> visiting,
                  calls |-> 1]
            ELSE LET r == _move_succeeds_holds_spawns(tgt, edges, occupied_now, memo,
                                                      visiting \cup {tgt})
                 IN [ok |-> r.ok, memo |-> Put(r.memo, src, r.ok),
                     visiting |-> r.visiting \ {tgt}, calls |-> r.calls + 1]

\* _move_succeeds that lets every selected move through, whatever holds the
\* target tile
_move_succeeds_over_stayer(src, edges, occupied_now, memo, visiting) ==
    [ok |-> src \in DOMAIN edges, memo |-> Put(memo, src, src \in DOMAIN edges),
     visiting |-> visiting, calls |-> 1]

\* _move_succeeds in which a move onto an occupied tile never succeeds
RECURSIVE _move_succeeds_no_train(_, _, _, _, _)
_move_succeeds_no_train(src, edges, occupied_now, memo, visiting) ==
    IF src \in DOMAIN memo
    THEN [ok |-> memo[src], memo |-> memo, visiting |-> visiting, calls |-> 1]
    ELSE IF src \notin DOMAIN edges
    THEN [ok |-> FALSE, memo |-> Put(memo, src, FALSE), visiting |-> visiting,
          calls |-> 1]
    ELSE LET tgt == edges[src].tgt
         IN IF \/ tgt \in sinks
               \/ tgt \notin occupied_now
               \/ tgt = src
            THEN [ok |-> TRUE, memo |-> Put(memo, src, TRUE), visiting |-> visiting,
                  calls |-> 1]
            ELSE [ok |-> FALSE, memo |-> Put(memo, src, FALSE), visiting |-> visiting,
                  calls |-> 1]

\* returns the result with the memo and visiting set as the call leaves them
RECURSIVE _move_succeeds(_, _, _, _, _)
_move_succeeds(src, edges, occupied_now, memo, visiting) ==
    IF src \in DOMAIN memo
    THEN [ok |-> memo[src], memo |-> memo, visiting |-> visiting, calls |-> 1]
    ELSE IF src \notin DOMAIN edges
    THEN [ok |-> FALSE, memo |-> Put(memo, src, FALSE), visiting |-> visiting,
          calls |-> 1]
    ELSE LET tgt == edges[src].tgt
         IN IF \/ tgt \in sinks
               \/ tgt \notin occupied_now
               \/ tgt = src
               \/ tgt \in visiting
            THEN [ok |-> TRUE, memo |-> Put(memo, src, TRUE), visiting |-> visiting,
                  calls |-> 1]
            ELSE LET r == _move_succeeds(tgt, edges, occupied_now, memo,
                                         visiting \cup {tgt})
                 IN [ok |-> r.ok, memo |-> Put(r.memo, src, r.ok),
                     visiting |-> r.visiting \ {tgt}, calls |-> r.calls + 1]

\* consumed that never consumes: the cell is written onto the sink tile
consumed_never(tgt) == FALSE

\* the test that sends a moving cell into a sink instead of the next map
consumed(tgt) == tgt \in sinks

\* stay_age that does not count the tick
stay_age_no_increment(cell, refreshed) == IF refreshed THEN 0 ELSE cell.age

\* the age of a cell that does not change position
stay_age(cell, refreshed) == IF refreshed THEN 0 ELSE cell.age + 1

\* survives with the comparison off by one
survives_off_by_one(new_age, dsteps) == new_age <= dsteps

\* the test that writes a cell to the next map instead of dropping it
survives(new_age, dsteps) == new_age < dsteps

\* CellFate that gives a cell the direction and prefer_left of its edge
\* although its move failed
CellFate_turns_on_failure(pos, cell, edges, ok, inflow_targets, dsteps) ==
    IF pos \in DOMAIN edges
    THEN LET e == edges[pos]
             moved == ok /\ e.tgt # pos
             to == IF ok THEN e.tgt ELSE pos
             refreshed == ~moved /\ e.eid \in GetOr(inflow_targets, to, {})
             new_age == IF moved THEN 0 ELSE stay_age(cell, refreshed)
         IN [ok |-> ok, to |-> to, sunk |-> ok /\ consumed(e.tgt), moved |-> moved,
             refreshed |-> refreshed,
             kept |-> ~(ok /\ consumed(e.tgt)) /\ survives(new_age, dsteps),
             cell |-> WaterCell(e.ndx, e.ndy, new_age, e.eid, e.pref_left)]
    ELSE LET refreshed == cell.emitter_id \in GetOr(inflow_targets, pos, {})
             new_age == stay_age(cell, refreshed)
         IN [ok |-> FALSE, to |-> pos, sunk |-> FALSE, moved |-> FALSE,
             refreshed |-> refreshed,
             kept |-> survives(new_age, dsteps),
             cell |-> WaterCell(cell.dx, cell.dy, new_age, cell.emitter_id,
                                cell.prefer_left)]

\* what advance_water does with one cell, given the outcome of its move
\* validation: where it is written (to), or that it is dropped
CellFate(pos, cell, edges, ok, inflow_targets, dsteps) ==
    IF pos \in DOMAIN edges /\ ok
    THEN LET e == edges[pos]
             moved == e.tgt # pos
             refreshed == ~moved /\ e.eid \in GetOr(inflow_targets, e.tgt, {})
             new_age == IF moved THEN 0 ELSE stay_age(cell, refreshed)
         IN [ok |-> TRUE, to |-> e.tgt, sunk |-> consumed(e.tgt), moved |-> moved,
             refreshed |-> refreshed,
             kept |-> ~consumed(e.tgt) /\ survives(new_age, dsteps),
             cell |-> WaterCell(e.ndx, e.ndy, new_age, e.eid, e.pref_left)]
    ELSE LET refreshed == cell.emitter_id \in GetOr(inflow_targets, pos, {})
             new_age == stay_age(cell, refreshed)
         IN [ok |-> FALSE, to |-> pos, sunk |-> FALSE, moved |-> FALSE,
             refreshed |-> refreshed,
             kept |-> survives(new_age, dsteps),
             cell |-> WaterCell(cell.dx, cell.dy, new_age, cell.emitter_id,
                                cell.prefer_left)]

\* the loop of advance_water from cell i of the iteration order on;
\* memo and visiting are the one dict and the one set that every call of
\* _move_succeeds of the tick shares; trace records, per top-level call, the
\* number of calls it made and the visiting set it left
RECURSIVE advance_water(_, _, _, _, _, _, _, _, _, _, _)
advance_water(ord, i, wat, edges, inflow_targets, dsteps, memo, visiting, next_water, fate, trace) ==
    IF i > Len(ord)
    THEN [next_water |-> next_water, fate |-> fate, memo |-> memo,
          visiting |-> visiting, trace |-> trace]
    ELSE LET pos == ord[i]
             r == IF pos \in DOMAIN edges
                  THEN _move_succeeds(pos, edges, DOMAIN wat, memo, visiting)
                  ELSE [ok |-> FALSE, memo |-> memo, visiting |-> visiting, calls |-> 0]
             f == CellFate(pos, wat[pos], edges, r.ok, inflow_targets, dsteps)
         IN advance_water(ord, i + 1, wat, edges, inflow_targets, dsteps, r.memo,
                          r.visiting,
                          IF f.kept THEN Put(next_water, f.to, f.cell) ELSE next_water,
                          Put(fate, pos, f),
                          IF pos \in DOMAIN edges
                          THEN Append(trace, [src |-> pos, calls |-> r.calls,
                                              visiting |-> r.visiting])
                          ELSE trace)

-----------------------------------------------------------------------------
(* WaterPruner *)

positions_by_eid(next_water) ==
    [eid \in {next_water[p].emitter_id : p \in DOMAIN next_water} |->
        {p \in DOMAIN next_water : next_water[p].emitter_id = eid}]

Manhattan(p, emitter) == Abs(p[1] - emitter.x) + Abs(p[2] - emitter.y)

\* the while loop of prune: flood from the stack through positions
RECURSIVE Flood(_, _, _)
Flood(stack, seen, positions) ==
    IF stack = <<>> THEN seen
    ELSE LET pos == stack[Len(stack)]
             rest == SubSeq(stack, 1, Len(stack) - 1)
             x == pos[1]
             y == pos[2]
             nbrs == << <<x + 1, y>>, <<x - 1, y>>, <<x, y + 1>>, <<x, y - 1>> >>
         IN IF pos \in seen THEN Flood(rest, seen, positions)
            ELSE Flood(rest \o SelectSeq(nbrs, LAMBDA n : n \in positions),
                       seen \cup {pos}, positions)

RowMajor(S) == SortBy(S, [p \in S |-> p[2] * (w + 1) + p[1]])

\* prune_reachable whose flood fill expands through the cells of every owner
RECURSIVE prune_reachable_any_owner(_, _, _, _)
prune_reachable_any_owner(ems, i, by_eid, reachable) ==
    IF i > Len(ems) THEN reachable
    ELSE LET emitter == ems[i]
             positions == GetOr(by_eid, emitter.id, {})
             min_dist == CHOOSE d \in {Manhattan(p, emitter) : p \in positions} :
                             \A p \in positions : d <= Manhattan(p, emitter)
             seeds == {p \in positions : Manhattan(p, emitter) = min_dist}
             seen0 == GetOr(reachable, emitter.id, {})
         IN IF positions = {} THEN prune_reachable_any_owner(ems, i + 1, by_eid, reachable)
            ELSE prune_reachable_any_owner(ems, i + 1, by_eid,
                     Put(reachable, emitter.id,
                         Flood(RowMajor(seeds), seen0,
                               UNION {by_eid[e] : e \in DOMAIN by_eid})))

\* prune_reachable that seeds the flood fill from one nearest cell only
RECURSIVE prune_reachable_one_seed(_, _, _, _)
prune_reachable_one_seed(ems, i, by_eid, reachable) ==
    IF i > Len(ems) THEN reachable
    ELSE LET emitter == ems[i]
             positions == GetOr(by_eid, emitter.id, {})
             min_dist == CHOOSE d \in {Manhattan(p, emitter) : p \in positions} :
                             \A p \in positions : d <= Manhattan(p, emitter)
             seeds == {p \in positions : Manhattan(p, emitter) = min_dist}
             seen0 == GetOr(reachable, emitter.id, {})
         IN IF positions = {} THEN prune_reachable_one_seed(ems, i + 1, by_eid, reachable)
            ELSE prune_reachable_one_seed(ems, i + 1, by_eid,
                     Put(reachable, emitter.id,
                         Flood(<<RowMajor(seeds)[1]>>, seen0, positions)))

\* the loop over the emitters of prune from emitter i on; returns reachable
RECURSIVE prune_reachable(_, _, _, _)
prune_reachable(ems, i, by_eid, reachable) ==
    IF i > Len(ems) THEN reachable
    ELSE LET emitter == ems[i]
             positions == GetOr(by_eid, emitter.id, {})
             min_dist == CHOOSE d \in {Manhattan(p, emitter) : p \in positions} :
                             \A p \in positions : d <= Manhattan(p, emitter)
             seeds == {p \in positions : Manhattan(p, emitter) = min_dist}
             seen0 == GetOr(reachable, emitter.id, {})
         IN IF positions = {} THEN prune_reachable(ems, i + 1, by_eid, reachable)
            ELSE prune_reachable(ems, i + 1, by_eid,
                                 Put(reachable, emitter.id,
                                     Flood(RowMajor(seeds), seen0, positions)))

\* prune that filters nothing
prune_keeps_all(next_water, ems) == next_water

prune(next_water, ems) ==
    LET reachable == prune_reachable(ems, 1, positions_by_eid(next_water), EmptyMap)
        keep == {p \in DOMAIN next_water :
                    p \in GetOr(reachable, next_water[p].emitter_id, {})}
    IN [p \in keep |-> next_water[p]]

-----------------------------------------------------------------------------
(* SimulationEngine *)

\* ceil(a / b) for positive b
Ceil(a, b) == IF a % b = 0 THEN a \div b ELSE (a \div b) + 1

RECURSIVE Pow2(_)
Pow2(k) == IF k = 0 THEN 1 ELSE 2 * Pow2(k - 1)

\* n / d (d positive) rounded to the nearest integer, a tie to the even one
RoundHalfEven(n, d) ==
    LET q == n \div d
        r == n % d
    IN IF 2 * r < d THEN q
       ELSE IF 2 * r > d THEN q + 1
       ELSE IF q % 2 = 0 THEN q ELSE q + 1

\* the exponents of the floats of the model
Exponents == (0 - FloatBits - 7)..3

\* the float nearest to n / d (n, d positive), a tie to the even mantissa: the
\* mantissa m has FloatBits bits and the value is m * 2^e
Float(n, d) ==
    LET lo == Pow2(FloatBits - 1)
        fits(e) == IF e >= 0
                   THEN lo * d * Pow2(e) <= n /\ n < 2 * lo * d * Pow2(e)
                   ELSE lo * d <= n * Pow2(0 - e) /\ n * Pow2(0 - e) < 2 * lo * d
        e == CHOOSE x \in Exponents : fits(x)
    IN [m |-> IF e >= 0 THEN RoundHalfEven(n, d * Pow2(e))
              ELSE RoundHalfEven(n * Pow2(0 - e), d),
        e |-> e]

\* float(n) for a positive int n
ToFloat(n) == Float(n, 1)

\* a / b for floats: the quotient of the mantissas, rounded, at the difference
\* of the exponents
FloatDiv(a, b) ==
    LET q == Float(a.m, b.m)
    IN [m |-> q.m, e |-> q.e + a.e - b.e]

\* int(math.ceil(a)) for a float a
CeilFloat(a) == IF a.e >= 0 THEN a.m * Pow2(a.e) ELSE Ceil(a.m, Pow2(0 - a.e))

\* decay_steps that rounds down
decay_steps_floor == Max(1, decay_ms \div step_ms)

\* max(1, int(math.ceil(self.decay_ms / float(self.step_ms)))): the int
\* decay_ms is converted to a float for the division
decay_steps == Max(1, CeilFloat(FloatDiv(ToFloat(decay_ms), ToFloat(step_ms))))

\* a tick that never resets the claims
clear_never(wat, claims) == claims

\* the start of tick: sink_claims after the reset
clear_if_empty(wat, claims) == IF DOMAIN wat = {} THEN EmptyMap ELSE claims

\* the iteration orders of a water map the model runs a tick under
Orders(S) ==
    IF Cardinality(S) <= PermCap THEN Perms(S)
    ELSE LET n == Cardinality(S)
             rm == RowMajor(S)
             cm == SortBy(S, [p \in S |-> p[1] * (h + 1) + p[2]])
         IN {rm, cm, [k \in 1..n |-> rm[n + 1 - k]], [k \in 1..n |-> cm[n + 1 - k]]}

\* everything one call of tick computes, for the water iterated in order ord
TickRun(ord) ==
    LET claims0 == clear_if_empty(water, sink_claims)
        powner == prev_owner(water)
        spawned == spawn_from_emitters(1, water, DOMAIN water)
        proposals == build_proposals(spawned, claims0)
        targets == group_targets(proposals, ord)
        inflow_targets == build_inflow_targets(targets)
        sel == _select_edges(targets, target_order(proposals, ord, 1, <<>>), 1,
                             EmptyMap, claims0, spawned, powner)
        adv == advance_water(ord, 1, spawned, sel.edges, inflow_targets, decay_steps,
                             EmptyMap, {}, EmptyMap, EmptyMap, <<>>)
        filtered == prune(adv.next_water, emitters)
    IN [water |-> filtered, sink_claims |-> sel.sink_claims,
        before |-> water, claims_before |-> sink_claims, idle_before |-> idle,
        spawned |-> spawned,
        proposals |-> proposals, edges |-> sel.edges, fate |-> adv.fate,
        next_water |-> adv.next_water]

Spawned == spawn_from_emitters(1, water, DOMAIN water)

EmptyLog ==
    [water |-> EmptyMap, sink_claims |-> EmptyMap, before |-> EmptyMap,
     claims_before |-> EmptyMap, idle_before |-> EmptyMap, spawned |-> EmptyMap,
     proposals |-> EmptyMap,
     edges |-> EmptyMap, fate |-> EmptyMap, next_water |-> EmptyMap]

\* consecutive ticks each surviving cell has now stayed in place without refresh
NextIdle(run) ==
    [p \in DOMAIN run.water |->
        IF /\ p \in DOMAIN run.fate
           /\ ~run.fate[p].moved /\ ~run.fate[p].sunk /\ ~run.fate[p].refreshed
        THEN (IF p \in DOMAIN idle THEN idle[p] ELSE 0) + 1
        ELSE 0]

\* no script command has run
NoCmd ==
    [name |-> "", x |-> None, y |-> None, hit |-> FALSE, at |-> None, edits |-> 0,
     raised |-> "", ms |-> None]

\* SimulationState() that shares one default dict per field among instances
SimulationState_shared_default(i) == [water |-> 1, sink_claims |-> 2]

\* SimulationState(): the default factories make two new dicts, named here by
\* the references 2i - 1 and 2i for the i-th instance made
SimulationState(i) == [water |-> 2 * i - 1, sink_claims |-> 2 * i]

\* no call of prune made
NoPrune == [next_water |-> EmptyMap, filtered |-> EmptyMap, again |-> EmptyMap,
            calls |-> 0]

\* what is kept of an instance while another one is ticked
Snapshot == [water |-> water, sink_claims |-> sink_claims, ticks |-> ticks,
             idle |-> idle, log |-> log]

Init ==
    /\ \E i \in DOMAIN Levels :
          LET lv == parse_level(Levels[i])
          IN /\ w = lv.w
             /\ h = lv.h
             /\ walls = lv.walls
             /\ emitters = lv.emitters
             /\ sinks = lv.sinks
    /\ \E e \in Engines : step_ms = e[1] /\ decay_ms = e[2]
    /\ water = EmptyMap
    /\ sink_claims = EmptyMap
    /\ ticks = 0
    /\ idle = EmptyMap
    /\ log = EmptyLog
    /\ cmd = NoCmd
    /\ pending = 0
    /\ out = <<>>
    /\ states = [i \in 1..2 |-> SimulationState(i)]
    /\ heap = [r \in 1..4 |-> EmptyMap]
    /\ active = 1
    /\ parked = [i \in 1..2 |-> [water |-> EmptyMap, sink_claims |-> EmptyMap,
                                 ticks |-> 0, idle |-> EmptyMap, log |-> EmptyLog]]
    /\ frames = <<>>
    /\ pruned = NoPrune
    /\ read_steps = None

Tick ==
    /\ ticks < MaxTicks
    /\ \E ord \in Orders(DOMAIN Spawned) :
          LET run == TickRun(ord)
          IN /\ water' = run.water
             /\ sink_claims' = run.sink_claims
             /\ idle' = NextIdle(run)
             /\ log' = run
    /\ ticks' = ticks + 1
    /\ UNCHANGED world_vars

Next == Tick /\ UNCHANGED <<script_vars, out, pair_vars, frames, pruned, read_steps>>

Spec == Init /\ [][Next]_vars

-----------------------------------------------------------------------------
(* tick that raises before the commit *)

\* the statements of tick after which state has been written in place: the
\* reset of the claims, spawn_from_emitters and _select_edges
TickSteps == {"clear_sink_claims", "spawn_from_emitters", "_select_edges"}

\* a call of tick in which the statement after `step` raises (an interrupt, or
\* the recursion limit in _move_succeeds on a long chain when step is
\* _select_edges); the caller is left with state as the call has written it
TickRaises(step) ==
    /\ cmd.raised = ""
    /\ ticks < MaxTicks
    /\ \E ord \in Orders(DOMAIN Spawned) :
          LET run == TickRun(ord)
          IN /\ water' = IF step = "clear_sink_claims" THEN water ELSE run.spawned
             /\ sink_claims' = IF step = "_select_edges" THEN run.sink_claims
                                ELSE clear_if_empty(water, sink_claims)
             /\ log' = [EmptyLog EXCEPT !.before = water,
                                        !.claims_before = sink_claims,
                                        !.idle_before = idle,
                                        !.spawned = water']
    /\ idle' = [p \in DOMAIN water' |-> GetOr(idle, p, 0)]
    /\ cmd' = [cmd EXCEPT !.raised = step]
    /\ UNCHANGED <<world_vars, ticks>>

RaiseNext ==
    /\ \/ cmd.raised = "" /\ Tick /\ UNCHANGED cmd
       \/ \E step \in TickSteps : TickRaises(step)
    /\ UNCHANGED <<pending, out, pair_vars, frames, pruned, read_steps>>

SpecRaise == Init /\ [][RaiseNext]_vars

-----------------------------------------------------------------------------
(* tick on the interpreter's call stack: _move_succeeds calls itself once for
   every cell of a train *)

\* the calls of _move_succeeds of the tick that visits the cells in `ord`, one
\* entry for every call advance_water makes
MoveTrace(ord) ==
    LET run == TickRun(ord)
    IN advance_water(ord, 1, run.spawned, run.edges,
                     build_inflow_targets(group_targets(run.proposals, ord)),
                     decay_steps, EmptyMap, {}, EmptyMap, EmptyMap, <<>>).trace

\* the calls advance_water makes whose nesting the interpreter does not allow
TooDeep(tr) == {k \in DOMAIN tr : tr[k].calls > RecursionLimit}

\* a tick whose calls all fit the stack
StackTickReturns ==
    /\ cmd.raised = ""
    /\ ticks < MaxTicks
    /\ \E ord \in Orders(DOMAIN Spawned) :
          \E run \in {TickRun(ord)}, tr \in {MoveTrace(ord)} :
             /\ TooDeep(tr) = {}
             /\ water' = run.water
             /\ sink_claims' = run.sink_claims
             /\ idle' = NextIdle(run)
             /\ log' = run
             /\ frames' = tr
    /\ ticks' = ticks + 1
    /\ UNCHANGED <<world_vars, cmd>>

\* a tick in which a call of _move_succeeds nests deeper than the interpreter
\* allows: RecursionError leaves tick after spawn_from_emitters and
\* _select_edges have written state, and nothing is committed
StackTickRaises ==
    /\ cmd.raised = ""
    /\ ticks < MaxTicks
    /\ \E ord \in Orders(DOMAIN Spawned) :
          \E run \in {TickRun(ord)}, tr \in {MoveTrace(ord)} :
             /\ TooDeep(tr) # {}
             /\ water' = run.spawned
             /\ sink_claims' = run.sink_claims
             /\ log' = [EmptyLog EXCEPT !.before = water,
                                        !.claims_before = sink_claims,
                                        !.idle_before = idle,
                                        !.spawned = run.spawned]
             /\ frames' = SubSeq(tr, 1, CHOOSE k \in TooDeep(tr) :
                                           \A j \in TooDeep(tr) : k <= j)
    /\ idle' = [p \in DOMAIN water' |-> GetOr(idle, p, 0)]
    /\ cmd' = [cmd EXCEPT !.raised = "_move_succeeds"]
    /\ UNCHANGED <<world_vars, ticks>>

StackNext ==
    /\ StackTickReturns \/ StackTickRaises
    /\ UNCHANGED <<pending, out, pair_vars, pruned, read_steps>>

SpecStack == Init /\ [][StackNext]_vars

-----------------------------------------------------------------------------
(* run_script: a script of wait, add and remove commands on one level *)

\* the levels the scripts run on
DslLevels == {1, 12, 20, 21, 22}

\* the coordinates the scripts name: every tile and one outside the grid
DslCoords == {<<x, y>> : x \in 0..(w - 1), y \in 0..(h - 1)} \cup {<<w, 0>>}

\* dict.pop(k, None)
Pop(f, k) == [x \in (DOMAIN f) \ {k} |-> f[x]]

\* an add or remove command: its coordinate, whether the tile held water and
\* the number of ticks run before it
EditCmd(name, x, y) ==
    [name |-> name, x |-> x, y |-> y, hit |-> <<x, y>> \in DOMAIN water,
     at |-> ticks, edits |-> cmd.edits + 1, raised |-> "", ms |-> None]

\* handle_add without the test for emitter and sink tiles
handle_add_unguarded(x, y) ==
    /\ cmd.edits < MaxEdits
    /\ cmd' = EditCmd("add", x, y)
    /\ IF ~in_bounds(x, y, w, h)
       THEN UNCHANGED <<walls, water, idle>>
       ELSE /\ walls' = walls \cup {<<x, y>>}
            /\ water' = Pop(water, <<x, y>>)
            /\ idle' = Pop(idle, <<x, y>>)
    /\ UNCHANGED <<w, h, emitters, sinks, step_ms, decay_ms, sink_claims, ticks, log>>

\* handle_add that leaves the water on the new wall
handle_add_keeps_water(x, y) ==
    /\ cmd.edits < MaxEdits
    /\ cmd' = EditCmd("add", x, y)
    /\ IF \/ ~in_bounds(x, y, w, h)
          \/ <<x, y>> \in emitter_positions
          \/ <<x, y>> \in sinks
       THEN UNCHANGED <<walls, water, idle>>
       ELSE /\ walls' = walls \cup {<<x, y>>}
            /\ UNCHANGED <<water, idle>>
    /\ UNCHANGED <<w, h, emitters, sinks, step_ms, decay_ms, sink_claims, ticks, log>>

handle_add(x, y) ==
    /\ cmd.edits < MaxEdits
    /\ cmd' = EditCmd("add", x, y)
    /\ IF \/ ~in_bounds(x, y, w, h)
          \/ <<x, y>> \in emitter_positions
          \/ <<x, y>> \in sinks
       THEN UNCHANGED <<walls, water, idle>>
       ELSE /\ walls' = walls \cup {<<x, y>>}
            /\ water' = Pop(water, <<x, y>>)
            /\ idle' = Pop(idle, <<x, y>>)
    /\ UNCHANGED <<w, h, emitters, sinks, step_ms, decay_ms, sink_claims, ticks, log>>

handle_remove(x, y) ==
    /\ cmd.edits < MaxEdits
    /\ cmd' = EditCmd("remove", x, y)
    /\ IF ~in_bounds(x, y, w, h)
       THEN UNCHANGED <<walls, water, idle>>
       ELSE /\ walls' = walls \ {<<x, y>>}
            /\ water' = Pop(water, <<x, y>>)
            /\ idle' = Pop(idle, <<x, y>>)
    /\ UNCHANGED <<w, h, emitters, sinks, step_ms, decay_ms, sink_claims, ticks, log>>

\* handle_wait with one step: advance_steps(1)
handle_wait ==
    /\ ticks < MaxDslTicks
    /\ Tick
    /\ cmd' = [cmd EXCEPT !.name = "wait"]

\* run_script starts on a level with the default engine and an empty state
DslInit ==
    /\ Init
    /\ step_ms = 120 /\ decay_ms = 250
    /\ \E i \in DslLevels :
          LET lv == parse_level(Levels[i])
          IN w = lv.w /\ h = lv.h /\ walls = lv.walls /\ emitters = lv.emitters
             /\ sinks = lv.sinks

DslNext ==
    /\ \/ handle_wait
       \/ \E c \in DslCoords : handle_add(c[1], c[2])
       \/ \E c \in DslCoords : handle_remove(c[1], c[2])
    /\ UNCHANGED <<pending, out, pair_vars, frames, pruned, read_steps>>

SpecDsl == DslInit /\ [][DslNext]_vars

-----------------------------------------------------------------------------
(* run_script: a script of one wait_ms command *)

STEP_MS == 120

\* the arguments the scripts give wait_ms
WaitMs == {0, 1, 60, 119, 120, 121, 239, 240, 241, 359, 360, 361, 480}

\* handle_wait_ms that rounds down
handle_wait_ms_floor(ms) ==
    /\ cmd.name = "" /\ pending = 0
    /\ cmd' = [cmd EXCEPT !.name = "wait_ms", !.ms = ms, !.at = ticks]
    /\ pending' = Max(1, ms \div STEP_MS)
    /\ UNCHANGED <<world_vars, water, sink_claims, ticks, idle, log>>

\* handle_wait_ms up to the call of advance_steps
handle_wait_ms(ms) ==
    /\ cmd.name = "" /\ pending = 0
    /\ cmd' = [cmd EXCEPT !.name = "wait_ms", !.ms = ms, !.at = ticks]
    /\ pending' = Max(1, Ceil(ms, STEP_MS))
    /\ UNCHANGED <<world_vars, water, sink_claims, ticks, idle, log>>

\* one iteration of the loop of advance_steps
advance_steps ==
    /\ pending > 0
    /\ Tick
    /\ pending' = pending - 1
    /\ UNCHANGED cmd

WaitNext ==
    /\ \/ \E ms \in WaitMs : handle_wait_ms(ms)
       \/ advance_steps
    /\ UNCHANGED <<out, pair_vars, frames, pruned, read_steps>>

SpecWait == DslInit /\ [][WaitNext]_vars

-----------------------------------------------------------------------------
(* AsciiRenderer *)

DIR_TO_CHAR(dx, dy) ==
    IF \E c \in DOMAIN DIRS : DIRS[c] = <<dx, dy>>
    THEN CHOOSE c \in DOMAIN DIRS : DIRS[c] = <<dx, dy>>
    ELSE "E"

WATER_DIR_CHAR(dx, dy) ==
    CASE <<dx, dy>> = <<0, -1>> -> "U"
      [] <<dx, dy>> = <<1, 0>> -> "R"
      [] <<dx, dy>> = <<0, 1>> -> "D"
      [] <<dx, dy>> = <<-1, 0>> -> "L"
      [] OTHER -> "~"

\* the loop over the emitters of render from emitter i on
RECURSIVE paint_emitters(_, _, _)
paint_emitters(grid, ems, i) ==
    IF i > Len(ems) THEN grid
    ELSE paint_emitters([grid EXCEPT ![<<ems[i].x, ems[i].y>>] =
                                         DIR_TO_CHAR(ems[i].dx, ems[i].dy)],
                        ems, i + 1)

\* render without coordinates: the rows of the grid, top to bottom
render(ww, hh, wls, ems, snks, wat) ==
    LET tiles == {<<x, y>> : x \in 0..(ww - 1), y \in 0..(hh - 1)}
        blank == [c \in tiles |-> "."]
        with_walls == [c \in tiles |-> IF c \in wls THEN "#" ELSE blank[c]]
        with_sinks == [c \in tiles |-> IF c \in snks THEN SINK ELSE with_walls[c]]
        with_emitters == paint_emitters(with_sinks, ems, 1)
        grid == [c \in tiles |->
                    IF c \in DOMAIN wat /\ with_emitters[c] \notin {"#", SINK}
                    THEN WATER_DIR_CHAR(wat[c].dx, wat[c].dy)
                    ELSE with_emitters[c]]
    IN [y \in 1..hh |-> [x \in 1..ww |-> grid[<<x - 1, y - 1>>]]]

\* the levels and water maps render is run on: up to MaxRenderWater cells on
\* any tiles of the grid, walls, sinks and emitter tiles included
RenderLevels == {1, 8}

RenderWaters(ww, hh) ==
    LET tiles == {<<x, y>> : x \in 0..(ww - 1), y \in 0..(hh - 1)}
        cells == {WaterCell(DIRS[c][1], DIRS[c][2], 0, 0, TRUE) : c \in DOMAIN DIRS}
    IN UNION {[S -> cells] : S \in {T \in SUBSET tiles : Cardinality(T) <= MaxRenderWater}}

RenderInit ==
    /\ \E i \in RenderLevels :
          LET lv == parse_level(Levels[i])
          IN /\ w = lv.w /\ h = lv.h /\ walls = lv.walls /\ emitters = lv.emitters
             /\ sinks = lv.sinks
             /\ water \in RenderWaters(lv.w, lv.h)
    /\ step_ms = 120 /\ decay_ms = 250
    /\ sink_claims = EmptyMap /\ ticks = 0 /\ idle = EmptyMap /\ log = EmptyLog
    /\ cmd = NoCmd /\ pending = 0 /\ out = <<>>
    /\ states = [i \in 1..2 |-> SimulationState(i)]
    /\ heap = [r \in 1..4 |-> EmptyMap]
    /\ active = 1
    /\ parked = [i \in 1..2 |-> [water |-> EmptyMap, sink_claims |-> EmptyMap,
                                 ticks |-> 0, idle |-> EmptyMap, log |-> EmptyLog]]
    /\ frames = <<>>
    /\ pruned = NoPrune
    /\ read_steps = None

Render ==
    /\ out = <<>>
    /\ out' = render(w, h, walls, emitters, sinks, water)
    /\ UNCHANGED <<world_vars, water, sink_claims, ticks, idle, log, script_vars,
                   pair_vars, frames, pruned, read_steps>>

RenderNext == Render

SpecRender == RenderInit /\ [][RenderNext]_vars

-----------------------------------------------------------------------------
(* two SimulationState instances on one level, ticked in turn *)

Other(i) == 3 - i

\* the caller turns from the active instance to the other one: from now on
\* tick is handed the other instance's dicts
Switch ==
    /\ ticks # parked[active].ticks
    /\ LET to == Other(active)
           stored == [heap EXCEPT ![states[active].water] = water,
                                  ![states[active].sink_claims] = sink_claims]
       IN /\ heap' = stored
          /\ parked' = [parked EXCEPT ![active] = Snapshot]
          /\ active' = to
          /\ water' = stored[states[to].water]
          /\ sink_claims' = stored[states[to].sink_claims]
          /\ ticks' = parked[to].ticks
          /\ idle' = [p \in DOMAIN water' |-> GetOr(parked[to].idle, p, 0)]
          /\ log' = parked[to].log
    /\ UNCHANGED <<world_vars, script_vars, out, states, frames, pruned, read_steps>>

PairTick ==
    /\ ticks < MaxPairTicks
    /\ Tick
    /\ UNCHANGED <<script_vars, out, pair_vars, frames, pruned, read_steps>>

PairNext == PairTick \/ Switch

SpecPair == Init /\ [][PairNext]_vars

-----------------------------------------------------------------------------
(* WaterPruner.prune called on any water map and emitter list *)

\* the tiles of the maps handed to prune: a grid three tiles wide, row by row
PruneGrid == {<<k % 3, k \div 3>> : k \in 0..(MaxPruneTiles - 1)}

\* the cell the maps hold on tile p for owner eid
PruneCell(p, eid) == WaterCell(1, 0, (p[1] + p[2]) % 2, eid, TRUE)

\* the water maps handed to prune: any set of tiles, each cell owned by 0 or 1
PruneMaps ==
    UNION {{[p \in S |-> PruneCell(p, own[p])] : own \in [S -> {0, 1}]} :
              S \in SUBSET PruneGrid}

\* the coordinates of the emitters handed to prune: between two tiles of the
\* first row, left of the second row, and on the far right
PruneEmitterAt == {<<1, 0>>, <<-1, 1>>, <<3, 0>>}

\* the emitter lists handed to prune: none, the emitter 0 alone (cells of owner
\* 1 then belong to no emitter of the list), the emitters 0 and 1, and two
\* emitters of id 0
PruneEmitterLists ==
    {<<>>}
    \cup {<<Emitter(0, a[1], a[2], 1, 0)>> : a \in PruneEmitterAt}
    \cup {<<Emitter(0, a[1], a[2], 1, 0), Emitter(i, b[1], b[2], 1, 0)>> :
             a \in PruneEmitterAt, b \in PruneEmitterAt, i \in {0, 1}}

PruneInit ==
    /\ w = 3 /\ h = (MaxPruneTiles + 2) \div 3
    /\ walls = {} /\ sinks = {}
    /\ emitters \in PruneEmitterLists
    /\ step_ms = 120 /\ decay_ms = 250
    /\ water = EmptyMap /\ sink_claims = EmptyMap /\ ticks = 0 /\ idle = EmptyMap
    /\ log = EmptyLog
    /\ cmd = NoCmd /\ pending = 0 /\ out = <<>>
    /\ states = [i \in 1..2 |-> SimulationState(i)]
    /\ heap = [r \in 1..4 |-> EmptyMap]
    /\ active = 1
    /\ parked = [i \in 1..2 |-> [water |-> EmptyMap, sink_claims |-> EmptyMap,
                                 ticks |-> 0, idle |-> EmptyMap, log |-> EmptyLog]]
    /\ frames = <<>>
    /\ \E m \in PruneMaps : pruned = [NoPrune EXCEPT !.next_water = m]
    /\ read_steps = None

\* prune that deletes the discarded cells from the dict it was handed
prune_input_in_place(next_water, ems) == prune(next_water, ems)

\* the dict handed to prune as the call leaves it: prune reads next_water and
\* writes only positions_by_eid, reachable and filtered
prune_input(next_water, ems) == next_water

\* filtered = prune(next_water, emitters)
PruneCall ==
    /\ pruned.calls = 0
    /\ pruned' = [pruned EXCEPT !.next_water = prune_input(pruned.next_water, emitters),
                                !.filtered = prune(pruned.next_water, emitters),
                                !.calls = 1]
    /\ UNCHANGED <<world_vars, water, sink_claims, ticks, idle, log, script_vars, out,
                   pair_vars, frames, read_steps>>

\* again = prune(filtered, emitters)
PruneAgain ==
    /\ pruned.calls = 1
    /\ pruned' = [pruned EXCEPT !.filtered = prune_input(pruned.filtered, emitters),
                                !.again = prune(pruned.filtered, emitters),
                                !.calls = 2]
    /\ UNCHANGED <<world_vars, water, sink_claims, ticks, idle, log, script_vars, out,
                   pair_vars, frames, read_steps>>

PruneNext == PruneCall \/ PruneAgain

SpecPrune == PruneInit /\ [][PruneNext]_vars

-----------------------------------------------------------------------------
(* SimulationEngine(step_ms, decay_ms).decay_steps for any engine *)

\* the step_ms the engines are constructed with
DecayStepMs == {1, 2, 3, 7, 120}

DecayInit ==
    /\ LET lv == parse_level(Levels[1])
       IN /\ w = lv.w /\ h = lv.h /\ walls = lv.walls /\ emitters = lv.emitters
          /\ sinks = lv.sinks
    /\ step_ms \in DecayStepMs
    /\ decay_ms \in 1..MaxDecayMs
    /\ water = EmptyMap /\ sink_claims = EmptyMap /\ ticks = 0 /\ idle = EmptyMap
    /\ log = EmptyLog
    /\ cmd = NoCmd /\ pending = 0 /\ out = <<>>
    /\ states = [i \in 1..2 |-> SimulationState(i)]
    /\ heap = [r \in 1..4 |-> EmptyMap]
    /\ active = 1
    /\ parked = [i \in 1..2 |-> [water |-> EmptyMap, sink_claims |-> EmptyMap,
                                 ticks |-> 0, idle |-> EmptyMap, log |-> EmptyLog]]
    /\ frames = <<>>
    /\ pruned = NoPrune
    /\ read_steps = None

\* engine.decay_steps
ReadDecaySteps ==
    /\ read_steps = None
    /\ read_steps' = decay_steps
    /\ UNCHANGED <<world_vars, water, sink_claims, ticks, idle, log, script_vars, out,
                   pair_vars, frames, pruned>>

DecayNext == ReadDecaySteps

SpecDecay == DecayInit /\ [][DecayNext]_vars

-----------------------------------------------------------------------------
(* Properties *)

InLevel(i) ==
    LET lv == parse_level(Levels[i])
    IN /\ w = lv.w /\ h = lv.h /\ walls = lv.walls
       /\ emitters = lv.emitters /\ sinks = lv.sinks

\* the cell a proposal writes when its move succeeds onto another tile
Arrived(p) == WaterCell(p.ndx, p.ndy, 0, p.eid, p.pref_left)

\* the cells of the last tick that proposed tile t
Proposers(t) == {s \in DOMAIN log.proposals : Target(log.proposals[s]) = t}

\* C1: occupancy invariant - after any number of ticks from the empty state
\* every water coordinate is in bounds and is no wall, emitter or sink tile.
C1_Occupancy ==
    \A p \in DOMAIN water :
        /\ in_bounds(p[1], p[2], w, h)
        /\ p \notin walls
        /\ p \notin emitter_positions
        /\ p \notin sinks

\* a tick in which a cell turned away from a wall and a sink consumed a cell,
\* with water left on the board
C1_Witness ==
    /\ DOMAIN water # {}
    /\ \E p \in DOMAIN log.fate : log.fate[p].sunk
    /\ \E p \in DOMAIN log.spawned :
          LET c == log.spawned[p]
          IN <<p[1] + c.dx, p[2] + c.dy>> \in walls

\* C2: age bound - after every tick every cell has 0 <= age < decay_steps.
C2_AgeBound ==
    \A p \in DOMAIN water : 0 <= water[p].age /\ water[p].age < decay_steps

\* a cell that has aged to the last age below the threshold
C2_Witness ==
    /\ \E p \in DOMAIN water : water[p].age = decay_steps - 1 /\ water[p].age > 0
    /\ ticks > 0

\* C3: evaporation - no cell present after a tick has stayed in place without
\* a refresh for decay_steps consecutive ticks.
C3_Evaporation ==
    \A p \in DOMAIN water : idle[p] < decay_steps

\* a cell that had stayed unrefreshed for decay_steps - 1 ticks stayed once
\* more and is gone
C3_Witness ==
    \E p \in DOMAIN log.fate :
        /\ decay_steps > 1
        /\ GetOr(log.idle_before, p, 0) = decay_steps - 1
        /\ ~log.fate[p].moved /\ ~log.fate[p].sunk /\ ~log.fate[p].refreshed
        /\ p \notin DOMAIN water

\* C4: sink exclusivity - while water is on the board at the start of a tick, a
\* claimed sink keeps its claim through the tick and consumes only cells of the
\* claiming emitter.
C4_SinkExclusivity ==
    [][\A s \in DOMAIN sink_claims :
          DOMAIN water # {} =>
              /\ s \in DOMAIN sink_claims'
              /\ sink_claims'[s] = sink_claims[s]
              /\ \A p \in DOMAIN log'.fate :
                    (log'.fate[p].sunk /\ log'.fate[p].to = s)
                        => log'.fate[p].cell.emitter_id = sink_claims[s]]_vars

\* a tick that started with water in which a cell faced a sink claimed by
\* another emitter, next to it
C4_Witness ==
    /\ log.before # EmptyMap
    /\ \E p \in DOMAIN log.before :
          LET c == log.before[p]
              f == <<p[1] + c.dx, p[2] + c.dy>>
          IN /\ f \in DOMAIN log.claims_before
             /\ log.claims_before[f] # c.emitter_id
             /\ f \in DOMAIN sink_claims
             /\ sink_claims[f] = log.claims_before[f]

\* the claims written by the edge selection of the last tick
WonClaims(lg) ==
    LET won == {s \in DOMAIN lg.edges : lg.edges[s].tgt \in sinks}
    IN [t \in {lg.edges[s].tgt : s \in won} |->
           lg.edges[CHOOSE s \in won : lg.edges[s].tgt = t].eid]

\* C5: claim reset - a tick that starts with empty water leaves only the claims
\* written in that tick; a tick that starts with water keeps a claim on every
\* sink that had one.
C5_ClaimReset ==
    [][/\ DOMAIN water = {} => sink_claims' = WonClaims(log')
       /\ DOMAIN water # {} => \A s \in DOMAIN sink_claims : s \in DOMAIN sink_claims']_vars

\* a tick that started with empty water and a claim, and the claim is gone
C5_Witness ==
    /\ ticks > 0
    /\ log.before = EmptyMap
    /\ \E s \in DOMAIN log.claims_before : s \notin DOMAIN sink_claims

\* the cells of S joined to a cell of From by 4-neighbour steps inside S
RECURSIVE Joined(_, _)
Joined(S, From) ==
    LET step == {p \in S \ From :
                    \E q \in From : Abs(p[1] - q[1]) + Abs(p[2] - q[2]) = 1}
    IN IF step = {} THEN From ELSE Joined(S, From \cup step)

Nearest(S, emitter) ==
    {p \in S : \A q \in S : Manhattan(p, emitter) <= Manhattan(q, emitter)}

OwnedBy(wat, id) == {p \in DOMAIN wat : wat[p].emitter_id = id}

\* C6: pruning closure - in the committed water every cell of an emitter is
\* joined through cells of that emitter to one of its cells nearest the emitter.
C6_PruningClosure ==
    \A i \in DOMAIN emitters :
        LET mine == OwnedBy(water, emitters[i].id)
        IN \A p \in mine :
              \E n \in Nearest(mine, emitters[i]) : p \in Joined(mine, {n})

\* a tick whose pruning removed a detached fragment and kept the rest
C6_Witness ==
    /\ DOMAIN water # {}
    /\ \E p \in DOMAIN log.next_water :
          /\ p \notin DOMAIN water
          /\ OwnedBy(water, log.next_water[p].emitter_id) # {}

\* four cells in a closed loop, each the only proposer of the next one's tile
Loop(a, b, c, d) ==
    /\ Cardinality({a, b, c, d}) = 4
    /\ Target(log.proposals[a]) = b /\ Proposers(b) = {a}
    /\ Target(log.proposals[b]) = c /\ Proposers(c) = {b}
    /\ Target(log.proposals[c]) = d /\ Proposers(d) = {c}
    /\ Target(log.proposals[d]) = a /\ Proposers(a) = {d}

\* C7 as stated: the four cells of a closed loop of proposals are all on
\* their targets after the tick.
C7_CycleRotation_Stated ==
    \A a, b, c, d \in DOMAIN log.proposals :
        Loop(a, b, c, d) =>
            \A s \in {a, b, c, d} :
                LET t == Target(log.proposals[s])
                IN /\ log.fate[s].moved
                   /\ log.fate[s].to = t
                   /\ t \in DOMAIN water
                   /\ water[t] = Arrived(log.proposals[s])

\* C7 amended: the moves of the four cells of a closed loop all succeed: each
\* cell is written to its target in the next map with age 0 and none stays in
\* place; the pruning that follows may remove a cell of the loop but leaves
\* the others as written.
C7_CycleRotation ==
    \A a, b, c, d \in DOMAIN log.proposals :
        Loop(a, b, c, d) =>
            \A s \in {a, b, c, d} :
                LET t == Target(log.proposals[s])
                IN /\ log.fate[s].moved
                   /\ log.fate[s].to = t
                   /\ t \in DOMAIN log.next_water
                   /\ log.next_water[t] = Arrived(log.proposals[s])
                   /\ t \in DOMAIN water => water[t] = Arrived(log.proposals[s])

\* the last tick had such a loop and all four cells are in the committed water
C7_Witness ==
    \E a, b, c, d \in DOMAIN log.proposals :
        /\ Loop(a, b, c, d)
        /\ {a, b, c, d} \subseteq DOMAIN water

\* C8: determinism - from every reachable state a tick gives the same water
\* and sink_claims under every iteration order of the water map.
C8_Determinism ==
    LET S == DOMAIN Spawned
        canon == TickRun(RowMajor(S))
    IN \A ord \in Orders(S) :
          /\ TickRun(ord).water = canon.water
          /\ TickRun(ord).sink_claims = canon.sink_claims

\* a state whose tick has two cells proposing one tile and two proposing one sink
C8_Witness ==
    LET props == build_proposals(Spawned, clear_if_empty(water, sink_claims))
        shared == {t \in {Target(props[s]) : s \in DOMAIN props} :
                      Cardinality({s \in DOMAIN props : Target(props[s]) = t}) > 1}
    IN /\ shared # {}
       /\ Cardinality(DOMAIN Spawned) > 2

\* C9 as stated: in the level #>..S# the water is at column 2 after tick 1, at
\* column 3 after tick 2, gone after tick 3.
C9_ScenarioA_Stated ==
    InLevel(1) =>
        /\ ticks = 1 => DOMAIN water = {<<2, 0>>}
        /\ ticks = 2 => DOMAIN water = {<<3, 0>>}
        /\ ticks = 3 => DOMAIN water = {}

\* C9 amended: in the level #>..S# the spawned cell moves in the tick that
\* spawns it, so after every tick the water is one cell of age 0 at column 3;
\* from tick 2 on each tick sends a cell into the sink, the water is never
\* empty and sink_claims stays {(4,0): 0}.
C9_ScenarioA ==
    InLevel(1) =>
        /\ ticks >= 1 => water = (<<3, 0>> :> WaterCell(1, 0, 0, 0, TRUE))
        /\ ticks = 1 => sink_claims = EmptyMap
        /\ ticks >= 2 => /\ sink_claims = (<<4, 0>> :> 0)
                         /\ \E p \in DOMAIN log.fate : log.fate[p].sunk

\* the level after its fourth tick
C9_Witness == InLevel(1) /\ ticks = 4 /\ DOMAIN water = {<<3, 0>>}

\* two cells of different emitters were the only proposers of the empty
\* non-sink tile t, both straight or both turning
Collision(a, b, t) ==
    /\ a # b
    /\ Proposers(t) = {a, b}
    /\ t \notin DOMAIN log.spawned
    /\ t \notin sinks
    /\ log.spawned[a].emitter_id # log.spawned[b].emitter_id
    /\ Get(prev_owner(log.before), t) \notin {log.spawned[a].emitter_id,
                                              log.spawned[b].emitter_id}
    /\ (<<log.proposals[a].ndx, log.proposals[a].ndy>>
            = <<log.spawned[a].dx, log.spawned[a].dy>>)
       <=> (<<log.proposals[b].ndx, log.proposals[b].ndy>>
            = <<log.spawned[b].dx, log.spawned[b].dy>>)

\* C10 as stated: the cell with the smaller source row, then column, moves
\* into the tile and the other cell stays on its source tile.
C10_ScenarioB_Stated ==
    \A a, b \in DOMAIN log.proposals :
        \A t \in {Target(log.proposals[a])} :
            (Collision(a, b, t) /\ LexLess(<<a[2], a[1]>>, <<b[2], b[1]>>)) =>
                /\ t \in DOMAIN water
                /\ water[t] = Arrived(log.proposals[a])
                /\ b \in DOMAIN water
                /\ water[b].emitter_id = log.spawned[b].emitter_id

\* the age advance_water gives a cell that stays on tile b: 0 when another
\* cell of its emitter proposed b, else one more
StayAge(b) ==
    IF \E s \in Proposers(b) \ {b} :
           log.spawned[s].emitter_id = log.spawned[b].emitter_id
    THEN 0 ELSE log.spawned[b].age + 1

\* C10 amended: the cell with the smaller source row, then column, moves into
\* the tile with age 0; the other cell gets no edge and does not move: it is
\* written back to its source tile with direction, owner and prefer_left
\* unchanged unless its new age reaches decay_steps, and then it is dropped.
\* Pruning may remove either cell afterwards but changes neither.
C10_ScenarioB ==
    \A a, b \in DOMAIN log.proposals :
        \A t \in {Target(log.proposals[a])} :
            (Collision(a, b, t) /\ LexLess(<<a[2], a[1]>>, <<b[2], b[1]>>)) =>
                /\ t \in DOMAIN log.next_water
                /\ log.next_water[t] = Arrived(log.proposals[a])
                /\ log.fate[a].moved /\ log.fate[a].to = t
                /\ b \notin DOMAIN log.edges
                /\ (b \in DOMAIN log.next_water) <=> (StayAge(b) < decay_steps)
                /\ b \in DOMAIN log.next_water =>
                      log.next_water[b] = [log.spawned[b] EXCEPT !.age = StayAge(b)]
                /\ \A p \in {t, b} \cap DOMAIN water : water[p] = log.next_water[p]

\* the last tick had such a collision, its loser stayed and both cells are
\* in the committed water
C10_Witness ==
    \E a, b \in DOMAIN log.proposals :
        LET t == Target(log.proposals[a])
        IN /\ Collision(a, b, t)
           /\ LexLess(<<a[2], a[1]>>, <<b[2], b[1]>>)
           /\ {t, b} \subseteq DOMAIN water
           /\ water[b].age > 0

\* every tile the cell could propose is blocked by the grid edge, a wall or an
\* emitter tile: it is against a dead end and its proposal is to stay
DeadEnd(p, cell) ==
    \A d \in {<<cell.dx, cell.dy>>, <<cell.dy, -cell.dx>>, <<-cell.dy, cell.dx>>} :
        \/ ~in_bounds(p[1] + d[1], p[2] + d[2], w, h)
        \/ <<p[1] + d[1], p[2] + d[2]>> \in walls
        \/ <<p[1] + d[1], p[2] + d[2]>> \in emitter_positions

\* the cells that were against a dead end in the last tick and got no refresh
TrappedDry ==
    {p \in DOMAIN log.fate :
        /\ DeadEnd(p, log.spawned[p])
        /\ Target(log.proposals[p]) = p
        /\ ~log.fate[p].refreshed}

\* the number of consecutive ticks, the last one included, that the cell on p
\* has been trapped without refresh
TrappedTicks(p) == GetOr(log.idle_before, p, 0) + 1

DefaultEngine == step_ms = 120 /\ decay_ms = 250

\* C11 as stated: with the default engine a cell against a dead end that gets
\* no refresh is present after its 1st and 2nd trapped tick and absent after
\* the 3rd.
C11_ScenarioC_Stated ==
    DefaultEngine =>
        \A p \in TrappedDry :
            /\ TrappedTicks(p) \in {1, 2} => p \in DOMAIN water
            /\ TrappedTicks(p) = 3 => p \notin DOMAIN water

\* C11 amended: with the default engine a cell against a dead end that gets
\* no refresh is written back unchanged but for its age, 1 after its 1st
\* trapped tick and 2 after its 2nd, and is dropped in its 3rd; the pruning of
\* the 1st or 2nd tick may remove it, and nothing else does.
C11_ScenarioC ==
    DefaultEngine =>
        \A p \in TrappedDry :
            /\ TrappedTicks(p) \in {1, 2} =>
                  /\ p \in DOMAIN log.next_water
                  /\ log.next_water[p] = [log.spawned[p] EXCEPT !.age = TrappedTicks(p)]
                  /\ p \in DOMAIN water => water[p] = log.next_water[p]
            /\ TrappedTicks(p) = 3 =>
                  /\ p \notin DOMAIN log.next_water
                  /\ p \notin DOMAIN water
            /\ TrappedTicks(p) <= 3

\* a cell against a dead end has just been dropped in its 3rd trapped tick
\* with the default engine
C11_Witness ==
    /\ DefaultEngine
    /\ \E p \in TrappedDry : TrappedTicks(p) = 3 /\ p \notin DOMAIN water

\* a tick is about to run right after an add command that put a wall on a
\* water tile of a world with one emitter
AfterAddOnStream ==
    /\ cmd.name = "add" /\ cmd.hit
    /\ Len(emitters) = 1
    /\ ticks' = ticks + 1

\* the cells joined to the emitter's nearest cells, in a map of one owner
Upstream(wat) == Joined(DOMAIN wat, Nearest(DOMAIN wat, emitters[1]))

\* C12 as stated: the tick after the insertion removes every cell of the
\* downstream fragment as the insertion left it and keeps every upstream cell
\* (on its tile or the tile it moved to).
C12_ScenarioD_Stated ==
    [][(AfterAddOnStream /\ Upstream(water) # DOMAIN water) =>
          /\ \A p \in DOMAIN water \ Upstream(water) :
                ~(log'.fate[p].kept /\ log'.fate[p].to \in DOMAIN water')
          /\ \A p \in Upstream(water) :
                log'.fate[p].kept /\ log'.fate[p].to \in DOMAIN water']_vars

\* C12 amended: the tick after the insertion leaves no water on the new wall
\* and, of the cells as they are after its spawning, movement and aging, it
\* removes every cell not joined to the emitter's nearest cells and keeps
\* every other cell unchanged.
C12_ScenarioD ==
    [][AfterAddOnStream =>
          /\ <<cmd.x, cmd.y>> \in walls' /\ <<cmd.x, cmd.y>> \notin DOMAIN water'
          /\ DOMAIN water' = Upstream(log'.next_water)
          /\ \A p \in DOMAIN water' : water'[p] = log'.next_water[p]]_vars

\* the last tick followed an insertion that split the stream: the fragment
\* beyond the wall is gone and the cell before the wall is still there
C12_Witness ==
    /\ cmd.name = "wait" /\ cmd.hit /\ ticks = cmd.at + 1
    /\ Len(emitters) = 1
    /\ \E p \in walls \cap {<<cmd.x, cmd.y>>} :
          /\ \E q \in DOMAIN log.before :
                /\ Manhattan(q, emitters[1]) > Manhattan(p, emitters[1])
                /\ log.fate[q].kept
                /\ log.fate[q].to \notin DOMAIN water
          /\ \E q \in DOMAIN log.before :
                /\ Manhattan(q, emitters[1]) < Manhattan(p, emitters[1])
                /\ log.fate[q].kept
                /\ log.fate[q].to \in DOMAIN water

\* C13 as stated: after a tick that raised before the commit, water and
\* sink_claims are what they were when the tick started.
C13_TickAtomic ==
    cmd.raised # "" => water = log.before /\ sink_claims = log.claims_before

\* C14: tick is a function of (world, water, sink_claims) - every tick leaves
\* the world as it was, its result is the one computed from the world, water
\* and sink_claims alone (whatever order the water dict has come to have), and
\* a tick started from the state the previous tick started from ends in the
\* state the previous tick ended in.
C14_TickPure ==
    [][LET canon == TickRun(RowMajor(DOMAIN Spawned))
       IN /\ <<w', h', walls', emitters', sinks'>> = <<w, h, walls, emitters, sinks>>
          /\ water' = canon.water
          /\ sink_claims' = canon.sink_claims
          /\ (ticks > 0 /\ water = log.before /\ sink_claims = log.claims_before)
                => (water' = water /\ sink_claims' = sink_claims)]_vars

\* after several ticks the state is again the one the last tick started from,
\* with two cells ready to contest a sink
C14_Witness ==
    /\ ticks >= 2
    /\ water = log.before /\ sink_claims = log.claims_before
    /\ \E t \in sinks : Cardinality(Proposers(t)) > 1

EmitterIds == {emitters[i].id : i \in DOMAIN emitters}

\* C15: every key of sink_claims is a sink coordinate and every value is the
\* id of an emitter of the world.
C15_ClaimsWellFormed ==
    \A s \in DOMAIN sink_claims : s \in sinks /\ sink_claims[s] \in EmitterIds

\* two sinks are claimed, by different emitters
C15_Witness ==
    \E s, t \in DOMAIN sink_claims : s # t /\ sink_claims[s] # sink_claims[t]

\* the distance between two tiles
Dist(p, q) == Abs(p[1] - q[1]) + Abs(p[2] - q[2])

\* C16: every cell present before a tick and still present after it is on its
\* tile of before or on a tile at Manhattan distance 1 from it.
C16_OneTilePerTick ==
    \A p \in DOMAIN log.before :
        (log.fate[p].kept /\ log.fate[p].to \in DOMAIN water) =>
            /\ Dist(p, log.fate[p].to) <= 1
            /\ log.fate[p].moved <=> Dist(p, log.fate[p].to) = 1

\* in the last tick one cell went straight on, one turned and one stayed, and
\* all three are still there
C16_Witness ==
    \E p, q, r \in DOMAIN log.before :
        /\ \A c \in {p, q, r} : log.fate[c].kept /\ log.fate[c].to \in DOMAIN water
        /\ log.fate[p].moved /\ log.fate[p].cell.dx = log.before[p].dx
                             /\ log.fate[p].cell.dy = log.before[p].dy
        /\ log.fate[q].moved /\ log.fate[q].cell.dx # log.before[q].dx
        /\ ~log.fate[r].moved

\* C17: two instances ticked in any interleaving do not affect each other - an
\* instance that is turned to again has the water and sink_claims it was left
\* with, and whenever the two instances (on the same level, with the same
\* engine) have run the same number of ticks they have the same water and
\* sink_claims, whatever the interleaving was.
C17_Independent ==
    [][/\ active' # active =>
             /\ water' = parked[active'].water
             /\ sink_claims' = parked[active'].sink_claims
       /\ parked'[Other(active')].ticks = ticks' =>
             /\ parked'[Other(active')].water = water'
             /\ parked'[Other(active')].sink_claims = sink_claims']_vars

\* the second instance has caught up with the first, which ran three ticks
\* before it was left, and both hold water and a claim
C17_Witness ==
    /\ active = 2 /\ ticks = 3 /\ parked[1].ticks = 3
    /\ DOMAIN water # {} /\ DOMAIN sink_claims # {}

\* the emitter on tile c
EmitterAt(c) == emitters[CHOOSE i \in DOMAIN emitters : <<emitters[i].x, emitters[i].y>> = c]

\* C18 as stated: the rendered character of every tile is the wall glyph on a
\* wall, else the sink glyph on a sink, else the emitter glyph on an emitter,
\* else the water glyph on water, else '.'.
C18_RenderPriority ==
    out # <<>> =>
        \A x \in 0..(w - 1), y \in 0..(h - 1) :
            out[y + 1][x + 1] =
                IF <<x, y>> \in walls THEN "#"
                ELSE IF <<x, y>> \in sinks THEN "S"
                ELSE IF <<x, y>> \in emitter_positions
                     THEN DIR_TO_CHAR(EmitterAt(<<x, y>>).dx, EmitterAt(<<x, y>>).dy)
                ELSE IF <<x, y>> \in DOMAIN water
                     THEN WATER_DIR_CHAR(water[<<x, y>>].dx, water[<<x, y>>].dy)
                ELSE "."

\* the number of ticks the finished wait_ms command has run
TicksRun == ticks - cmd.at

WaitDone == cmd.name = "wait_ms" /\ pending = 0

\* C19 as stated: wait_ms <ms> advances ceil(ms / 120) ticks, 0 ticks for 0 ms.
C19_WaitMs_Stated == WaitDone => TicksRun = Ceil(cmd.ms, 120)

\* C19 amended: wait_ms <ms> advances ceil(ms / 120) ticks for ms >= 1 and
\* one tick for 0 ms.
C19_WaitMs ==
    WaitDone => TicksRun = (IF cmd.ms = 0 THEN 1 ELSE Ceil(cmd.ms, 120))

\* wait_ms 241 has run its three ticks
C19_Witness == WaitDone /\ cmd.ms = 241 /\ TicksRun = 3

\* the cells of the last tick that advance_water left on their tile
Stayers == {p \in DOMAIN log.fate : ~log.fate[p].moved /\ ~log.fate[p].sunk}

\* the owner ids of the other cells that proposed tile p in the last tick
InflowIds(p) == {log.proposals[s].eid : s \in Proposers(p) \ {p}}

\* the age advance_water computed for the cell that stayed on p
NewAge(p) == log.fate[p].cell.age

\* C20 as stated: a cell that stays on its tile gets age 0 if and only if
\* another cell owned by a different emitter proposed its tile in that tick,
\* and otherwise its age increases by 1.
C20_ContactRefresh_Stated ==
    \A p \in Stayers :
        NewAge(p) = IF InflowIds(p) \ {log.spawned[p].emitter_id} # {}
                    THEN 0 ELSE log.spawned[p].age + 1

\* C20: a cell that stays on its tile gets age 0 if and only if another
\* cell owned by its own emitter proposed its tile in that tick, and
\* otherwise its age increases by 1; inflow from other emitters alone does
\* not refresh it.
C20_ContactRefresh ==
    \A p \in Stayers :
        NewAge(p) = IF log.spawned[p].emitter_id \in InflowIds(p)
                    THEN 0 ELSE log.spawned[p].age + 1

C20_Witness ==
    \E p \in Stayers :
        /\ InflowIds(p) = {log.spawned[p].emitter_id}
        /\ log.spawned[p].age > 0 /\ NewAge(p) = 0
        /\ p \in DOMAIN water /\ water[p].age = 0

\* the non-sink tiles that several cells proposed in the last tick
Contested == {t \in {Target(log.proposals[s]) : s \in DOMAIN log.proposals} :
                 t \notin sinks /\ Cardinality(Proposers(t)) > 1}

\* the proposal of the cell on s keeps the direction the cell had
Straight(s) ==
    <<log.proposals[s].ndx, log.proposals[s].ndy>> = <<log.spawned[s].dx, log.spawned[s].dy>>

\* the rank of the proposer on s for tile t: owner of t at the start of the
\* tick first, then straight before turning, then source row, then column
CollisionRank(s, t) ==
    <<IF Get(prev_owner(log.before), t) = log.spawned[s].emitter_id THEN 0 ELSE 1,
      IF Straight(s) THEN 0 ELSE 1, s[2], s[1]>>

\* the proposers of t that got the edge
EdgeHolders(t) == {s \in Proposers(t) : s \in DOMAIN log.edges}

\* exactly one proposer of every contested tile has the edge and it is the
\* first in rank
OneRankedWinner ==
    \A t \in Contested :
        /\ Cardinality(EdgeHolders(t)) = 1
        /\ \A s \in EdgeHolders(t) :
              /\ log.edges[s].tgt = t
              /\ \A o \in Proposers(t) \ {s} : LexLess(CollisionRank(s, t), CollisionRank(o, t))

\* C21 as stated: of several proposers of a non-sink tile exactly one gets
\* the edge, the first by (previous owner of the tile, straight before
\* turning, source row, source column); every other proposer stays on its
\* tile with direction and prefer_left unchanged.
C21_CollisionResolution_Stated ==
    /\ OneRankedWinner
    /\ \A t \in Contested :
          \A o \in Proposers(t) \ EdgeHolders(t) :
              /\ o \in DOMAIN water
              /\ <<water[o].dx, water[o].dy, water[o].prefer_left, water[o].emitter_id>>
                    = <<log.spawned[o].dx, log.spawned[o].dy, log.spawned[o].prefer_left,
                        log.spawned[o].emitter_id>>

\* C21 amended: exactly one proposer gets the edge, the first in that rank;
\* every other proposer gets no edge and does not move: it is written back to
\* its tile with direction, owner and prefer_left unchanged unless its new age
\* reaches decay_steps, and then it is dropped; pruning may remove it
\* afterwards but does not change it.
C21_CollisionResolution ==
    /\ OneRankedWinner
    /\ \A t \in Contested :
          \A o \in Proposers(t) \ EdgeHolders(t) :
              /\ ~log.fate[o].moved /\ ~log.fate[o].sunk
              /\ (o \in DOMAIN log.next_water) <=> (StayAge(o) < decay_steps)
              /\ o \in DOMAIN log.next_water =>
                    log.next_water[o] = [log.spawned[o] EXCEPT !.age = StayAge(o)]
              /\ o \in DOMAIN water => water[o] = log.next_water[o]

\* the last tick had a tile with a straight and a turning proposer, equal in
\* the previous-owner rank, of which the turning one lost and is still on its
\* tile
C21_Witness ==
    \E t \in Contested :
        /\ \E s \in EdgeHolders(t) : \E o \in Proposers(t) \ {s} :
              /\ Straight(s) /\ ~Straight(o)
              /\ CollisionRank(s, t)[1] = CollisionRank(o, t)[1]
              /\ o \in DOMAIN water

\* the sinks that some cell proposed in the last tick
ProposedSinks == {t \in sinks : Proposers(t) # {}}

\* the claims as the proposals and the edge selection of the last tick read
\* them: those of before the tick, reset when the water was empty
ClaimsRead == clear_if_empty(log.before, log.claims_before)

\* the rank of the proposer on s for sink t: owner of the claim first, then
\* source row, then column
SinkRank(s, t) ==
    <<IF Get(ClaimsRead, t) = log.spawned[s].emitter_id THEN 0 ELSE 1, s[2], s[1]>>

\* the proposers of sink t that it consumed
Consumed(t) == {s \in Proposers(t) : log.fate[s].sunk}

\* exactly one proposer of every proposed sink is consumed, the first in rank,
\* and the sink is claimed by its owner
OneConsumed ==
    \A t \in ProposedSinks :
        /\ Cardinality(Consumed(t)) = 1
        /\ \A s \in Consumed(t) :
              /\ s \in DOMAIN log.edges /\ log.edges[s].tgt = t
              /\ \A o \in Proposers(t) \ {s} : LexLess(SinkRank(s, t), SinkRank(o, t))
              /\ Get(sink_claims, t) = log.spawned[s].emitter_id
        /\ t \notin DOMAIN log.next_water

\* C22 as stated: every proposed sink consumes exactly one proposer (one whose
\* owner holds the claim if a proposer has it, else the smallest source row
\* then column), sink_claims[sink] is the winner's owner, and every other
\* proposer remains on its source tile.
C22_SinkSelection_Stated ==
    /\ OneConsumed
    /\ \A t \in ProposedSinks :
          \A o \in Proposers(t) \ Consumed(t) :
              o \in DOMAIN water /\ water[o].emitter_id = log.spawned[o].emitter_id

\* C22 amended: every proposed sink consumes exactly one proposer, chosen and
\* recorded as stated; every other proposer gets no edge and does not move:
\* it is written back to its tile with a new age unless that age reaches
\* decay_steps, and then it is dropped; pruning may remove it afterwards.
C22_SinkSelection ==
    /\ OneConsumed
    /\ \A t \in ProposedSinks :
          \A o \in Proposers(t) \ Consumed(t) :
              /\ o \notin DOMAIN log.edges
              /\ ~log.fate[o].moved /\ ~log.fate[o].sunk
              /\ (o \in DOMAIN log.next_water) <=> (StayAge(o) < decay_steps)
              /\ o \in DOMAIN log.next_water =>
                    log.next_water[o] = [log.spawned[o] EXCEPT !.age = StayAge(o)]
              /\ o \in DOMAIN water => water[o] = log.next_water[o]

\* the last tick had a sink with two proposers of which the loser is still on
\* its tile
C22_Witness ==
    \E t \in ProposedSinks :
        \E s \in Consumed(t) : \E o \in Proposers(t) \ {s} :
            o \in DOMAIN water /\ Get(sink_claims, t) = log.spawned[s].emitter_id

\* the cells whose edge targets a non-sink tile that another cell held when
\* the tick started
Followers ==
    {p \in DOMAIN log.edges :
        /\ log.edges[p].tgt \notin sinks
        /\ log.edges[p].tgt # p
        /\ log.edges[p].tgt \in DOMAIN log.before}

\* the cell reached from p by following edges from a cell to the cell on its
\* target tile, until a cell without an edge, a free tile, a sink or a cell
\* already passed
RECURSIVE ChainEnd(_, _)
ChainEnd(p, seen) ==
    IF p \notin DOMAIN log.edges THEN p
    ELSE LET t == log.edges[p].tgt
         IN IF t \in sinks \/ t \notin DOMAIN log.spawned \/ t \in seen THEN p
            ELSE ChainEnd(t, seen \cup {t})

\* p lies on a closed cycle of edges: following the edges from p leads back
\* to p
OnCycle(p) ==
    LET e == ChainEnd(p, {p})
    IN /\ e \in DOMAIN log.edges
       /\ log.edges[e].tgt = p
       /\ p \in DOMAIN log.edges
       /\ log.edges[p].tgt # p

\* the move of the cell on p succeeded: it went to another tile or into a sink
Left(p) == log.fate[p].moved \/ log.fate[p].sunk

\* C23: a cell whose edge targets a non-sink tile that another cell held at
\* the start of the tick moves if and only if that occupant's own move
\* succeeds or both lie on a closed cycle of edges; no cell of a chain whose
\* head has no edge advances in that tick.
C23_TrainRule ==
    /\ \A p \in Followers :
          LET t == log.edges[p].tgt
          IN log.fate[p].moved <=> (Left(t) \/ (OnCycle(p) /\ OnCycle(t)))
    /\ \A p \in DOMAIN log.edges :
          ChainEnd(p, {p}) \notin DOMAIN log.edges => ~Left(p)

\* the last tick had a cell that followed a moving cell onto its tile, and a
\* chain of two cells held back behind a cell without an edge
C23_Witness ==
    /\ \E p \in Followers : log.fate[p].moved /\ ~OnCycle(p)
    /\ \E p \in Followers :
          LET t == log.edges[p].tgt
          IN /\ t \in Followers
             /\ ChainEnd(p, {p}) \notin DOMAIN log.edges

\* the forward tile of emitter i
Forward(i) == <<emitters[i].x + emitters[i].dx, emitters[i].y + emitters[i].dy>>

\* a tile on which spawn_from_emitters creates a cell: in bounds, no wall, no
\* emitter tile, no sink and without water when the tick started
Spawnable(t) ==
    /\ in_bounds(t[1], t[2], w, h)
    /\ t \notin walls
    /\ t \notin emitter_positions
    /\ t \notin sinks
    /\ t \notin DOMAIN log.before

\* the first emitter of the list that faces tile t
FirstFacing(t) ==
    emitters[CHOOSE i \in DOMAIN emitters :
                 Forward(i) = t /\ \A j \in DOMAIN emitters : Forward(j) = t => i <= j]

\* the tiles that got a cell in the spawning of the last tick
SpawnTiles == {Forward(i) : i \in {j \in DOMAIN emitters : Spawnable(Forward(j))}}

\* C24: the spawning of a tick creates, for each emitter in list order, a cell
\* (emitter direction, age 0, emitter id, prefer_left true) on the emitter's
\* forward tile unless the tile is out of bounds, a wall, an emitter tile, a
\* sink or holds water or an earlier spawn of the tick; of two emitters that
\* face one tile the earlier spawns, and no existing cell is overwritten.
C24_Spawning ==
    ticks > 0 =>
        /\ DOMAIN log.spawned = DOMAIN log.before \cup SpawnTiles
        /\ \A p \in DOMAIN log.before : log.spawned[p] = log.before[p]
        /\ \A t \in SpawnTiles :
              LET e == FirstFacing(t)
              IN log.spawned[t] = WaterCell(e.dx, e.dy, 0, e.id, TRUE)

\* the last tick spawned on a tile that two emitters face, while the water of
\* before the tick was not empty
C24_Witness ==
    /\ ticks > 0 /\ log.before # EmptyMap
    /\ \E t \in SpawnTiles :
          Cardinality({i \in DOMAIN emitters : Forward(i) = t}) = 2

\* a cell of this owner cannot enter tile t: it is out of bounds, a wall, an
\* emitter tile, or a sink that another emitter held when the proposals were
\* made
Shut(t, owner) ==
    \/ ~in_bounds(t[1], t[2], w, h)
    \/ t \in walls
    \/ t \in emitter_positions
    \/ t \in sinks /\ Get(ClaimsRead, t) \notin {None, owner}

\* the proposal the rule gives the cell c on tile p
RuleProposal(p, c) ==
    LET fwd == <<c.dx, c.dy>>
        left == <<c.dy, -c.dx>>
        right == <<-c.dy, c.dx>>
        first == IF c.prefer_left THEN left ELSE right
        second == IF c.prefer_left THEN right ELSE left
        at(d) == <<p[1] + d[1], p[2] + d[2]>>
        turn(d) == Proposal(at(d)[1], at(d)[2], d[1], d[2], c.emitter_id, ~c.prefer_left)
    IN IF ~Shut(at(fwd), c.emitter_id)
       THEN Proposal(at(fwd)[1], at(fwd)[2], c.dx, c.dy, c.emitter_id, c.prefer_left)
       ELSE IF ~Shut(at(first), c.emitter_id) THEN turn(first)
       ELSE IF ~Shut(at(second), c.emitter_id) THEN turn(second)
       ELSE Proposal(p[1], p[2], c.dx, c.dy, c.emitter_id, c.prefer_left)

\* C25: a cell whose forward tile is not blocked proposes it with direction
\* and prefer_left unchanged; a blocked cell proposes the first viable
\* perpendicular tile, left (dy,-dx) before right (-dy,dx) when prefer_left is
\* true and right before left otherwise, with the turn direction and
\* prefer_left negated; with no viable turn it proposes its own tile with
\* direction and prefer_left unchanged.
C25_MoveProposal ==
    /\ DOMAIN log.proposals = DOMAIN log.spawned
    /\ \A p \in DOMAIN log.proposals :
          log.proposals[p] = RuleProposal(p, log.spawned[p])

\* the last tick had a blocked cell with prefer_left false whose right tile
\* was shut and which proposed its left tile
C25_Witness ==
    \E p \in DOMAIN log.proposals :
        LET c == log.spawned[p]
        IN /\ ~c.prefer_left
           /\ Shut(<<p[1] + c.dx, p[2] + c.dy>>, c.emitter_id)
           /\ Shut(<<p[1] - c.dy, p[2] + c.dx>>, c.emitter_id)
           /\ Target(log.proposals[p]) = <<p[1] + c.dy, p[2] - c.dx>>
           /\ log.proposals[p].pref_left

\* the cell on p was written to a tile perpendicular to its direction
Turned(p) ==
    LET c == log.spawned[p]
    IN /\ log.fate[p].moved
       /\ log.fate[p].to \in {<<p[1] + c.dy, p[2] - c.dx>>, <<p[1] - c.dy, p[2] + c.dx>>}

\* the cell on p had an edge onto a perpendicular tile and its move failed
TurnFailed(p) ==
    /\ p \in DOMAIN log.edges
    /\ ~Straight(p)
    /\ log.edges[p].tgt # p
    /\ ~log.fate[p].ok

\* C26: the cell of the next state that a cell of this tick became has another
\* prefer_left or direction only if the cell moved onto a perpendicular tile
\* in the tick; a cell that moves straight, stays, loses a collision or fails
\* validation of its turn keeps both.
C26_TurnFrame ==
    \A p \in DOMAIN log.fate :
        LET c == log.spawned[p]
            f == log.fate[p]
        IN f.kept =>
              /\ log.next_water[f.to] = f.cell
              /\ f.to \in DOMAIN water => water[f.to] = f.cell
              /\ ~Turned(p) =>
                    <<f.cell.dx, f.cell.dy, f.cell.prefer_left>> = <<c.dx, c.dy, c.prefer_left>>
              /\ Turned(p) =>
                    /\ <<f.cell.dx, f.cell.dy>> = <<f.to[1] - p[1], f.to[2] - p[2]>>
                    /\ f.cell.prefer_left = ~c.prefer_left

\* the last tick had a cell whose turn failed validation and that is still on
\* its tile, and a cell that turned
C26_Witness ==
    /\ \E p \in DOMAIN log.fate : TurnFailed(p) /\ log.fate[p].kept /\ p \in DOMAIN water
    /\ \E p \in DOMAIN log.fate : Turned(p) /\ log.fate[p].to \in DOMAIN water

\* the sinks a cell of this owner cannot enter: those that another emitter
\* held when the proposals were made
ForeignSinks(owner) == {t \in sinks : Get(ClaimsRead, t) \notin {None, owner}}

\* the forward tile of the cell c on p
Ahead(p, c) == <<p[1] + c.dx, p[2] + c.dy>>

\* the proposal of the cell c on p in the world that has walls on the tiles of B
\* and no claims
ProposalWithWalls(p, c, B) ==
    LET fwd == <<c.dx, c.dy>>
        left == <<c.dy, -c.dx>>
        right == <<-c.dy, c.dx>>
        first == IF c.prefer_left THEN left ELSE right
        second == IF c.prefer_left THEN right ELSE left
        at(d) == <<p[1] + d[1], p[2] + d[2]>>
        closed(t) == \/ ~in_bounds(t[1], t[2], w, h)
                     \/ t \in walls \cup B
                     \/ t \in emitter_positions
        turn(d) == Proposal(at(d)[1], at(d)[2], d[1], d[2], c.emitter_id, ~c.prefer_left)
    IN IF ~closed(at(fwd))
       THEN Proposal(at(fwd)[1], at(fwd)[2], c.dx, c.dy, c.emitter_id, c.prefer_left)
       ELSE IF ~closed(at(first)) THEN turn(first)
       ELSE IF ~closed(at(second)) THEN turn(second)
       ELSE Proposal(p[1], p[2], c.dx, c.dy, c.emitter_id, c.prefer_left)

\* C27: no cell proposes, forward or by turning, a sink that another emitter
\* holds at the time of the proposal - its proposal is the one it would make
\* if those sinks were walls - while a sink ahead that is unclaimed or held by
\* the cell's own emitter is proposed.
C27_ClaimedSinkBlocking ==
    \A p \in DOMAIN log.proposals :
        LET c == log.spawned[p]
        IN /\ Target(log.proposals[p]) \notin ForeignSinks(c.emitter_id)
           /\ log.proposals[p] = ProposalWithWalls(p, c, ForeignSinks(c.emitter_id))
           /\ Ahead(p, c) \in sinks \ ForeignSinks(c.emitter_id) =>
                 Target(log.proposals[p]) = Ahead(p, c)

\* the last tick had a cell facing a sink held by another emitter, a cell
\* facing a sink held by its own emitter, and both are as the rule says
C27_Witness ==
    /\ \E p \in DOMAIN log.proposals :
          Ahead(p, log.spawned[p]) \in ForeignSinks(log.spawned[p].emitter_id)
    /\ \E p \in DOMAIN log.proposals :
          /\ Get(ClaimsRead, Ahead(p, log.spawned[p])) = log.spawned[p].emitter_id
          /\ Target(log.proposals[p]) = Ahead(p, log.spawned[p])

\* the owner of the cell on tile t when the tick started, None without a cell
OwnerBefore(t) == IF t \in DOMAIN log.before THEN log.before[t].emitter_id ELSE None

\* the rank of the proposer on s for tile t, computed from the snapshot alone:
\* the claims read at the start of the tick, the owners of before the
\* spawning and the water of after it
FrozenRank(s, t) ==
    IF t \in sinks
    THEN <<IF Get(ClaimsRead, t) = log.spawned[s].emitter_id THEN 0 ELSE 1, 0, s[2], s[1]>>
    ELSE <<IF OwnerBefore(t) = log.spawned[s].emitter_id THEN 0 ELSE 1,
           IF Straight(s) THEN 0 ELSE 1, s[2], s[1]>>

\* the proposer of t that is first in that rank
FrozenWinner(t) ==
    CHOOSE s \in Proposers(t) :
        \A o \in Proposers(t) \ {s} : LexLess(FrozenRank(s, t), FrozenRank(o, t))

\* the tiles proposed in the last tick
ProposedTiles == {Target(log.proposals[s]) : s \in DOMAIN log.proposals}

\* C28: the proposals, the edges and the claims of a tick are those computed
\* from one snapshot - the water after spawning, the sink claims as read at
\* the start of the tick and the owners of before the spawning; no claim
\* written by the edge selection is read by a proposal or by the selection of
\* another target.
C28_SnapshotConsistency ==
    /\ \A p \in DOMAIN log.proposals :
          /\ ~Shut(Target(log.proposals[p]), log.spawned[p].emitter_id)
                \/ Target(log.proposals[p]) = p
          /\ Ahead(p, log.spawned[p]) # Target(log.proposals[p]) =>
                Shut(Ahead(p, log.spawned[p]), log.spawned[p].emitter_id)
    /\ DOMAIN log.edges = {FrozenWinner(t) : t \in ProposedTiles}
    /\ \A s \in DOMAIN log.edges :
          log.edges[s] = Edge(Target(log.proposals[s]), Mover(s, log.proposals[s]))
    /\ sink_claims =
          [t \in DOMAIN ClaimsRead \cup ProposedSinks |->
              IF t \in ProposedSinks THEN log.spawned[FrozenWinner(t)].emitter_id
              ELSE ClaimsRead[t]]

\* the last tick wrote a claim on a sink that had none while another sink
\* was proposed too and got or kept the claim of another emitter
C28_Witness ==
    \E t1, t2 \in ProposedSinks :
        /\ t1 # t2
        /\ Get(ClaimsRead, t1) = None
        /\ Get(sink_claims, t1) # Get(sink_claims, t2)

\* ---------------------------------------------------------------------------
\* C29  Move validation always terminates and every tick runs to completion:
\*      no call of tick raises, each call of _move_succeeds advance_water
\*      makes visits no more cells than the water map holds (the cell a loop
\*      starts from is met a second time, then the loop is cut), and the set
\*      of visited cells is empty again after each.

\* every call of _move_succeeds advance_water made in the last tick nested at
\* most one deeper than the number of cells, and left `visiting` empty
VisitsBounded ==
    \A k \in DOMAIN frames :
        /\ frames[k].calls <= Cardinality(DOMAIN log.spawned) + 1
        /\ frames[k].visiting = {}

C29_MoveValidationTerminates == cmd.raised = "" /\ VisitsBounded

\* ---------------------------------------------------------------------------
\* C30  No two cells merge: in advance_water no two distinct cells of the
\*      water after spawning are written to the same coordinate of the next
\*      map, a cell that remains on its tile is never overwritten by a cell
\*      moving in, and the number of cells after movement is the number
\*      before it (this tick's spawns included) less the cells consumed by
\*      sinks and the cells dropped by decay.

\* the cells advance_water wrote into the next map
Written == {p \in DOMAIN log.fate : log.fate[p].kept}

\* the cells that moved into a sink
Sunk == {p \in DOMAIN log.fate : log.fate[p].sunk}

\* the cells that were not written because of their age
Decayed == {p \in DOMAIN log.fate : ~log.fate[p].sunk /\ ~log.fate[p].kept}

C30_NoMerge ==
    /\ \A p, q \in Written : p # q => log.fate[p].to # log.fate[q].to
    /\ \A p \in Written :
          /\ log.fate[p].to \in DOMAIN log.next_water
          /\ log.next_water[log.fate[p].to] = log.fate[p].cell
    /\ \A p \in DOMAIN log.fate :
          ~log.fate[p].moved /\ ~log.fate[p].sunk =>
              \A q \in DOMAIN log.fate : q # p => log.fate[q].to # p
    /\ DOMAIN log.fate = DOMAIN log.spawned
    /\ Cardinality(DOMAIN log.next_water)
          = Cardinality(DOMAIN log.spawned) - Cardinality(Sunk) - Cardinality(Decayed)

\* a tick in which a cell moved onto the tile another cell left, a cell whose
\* move into an occupied tile was selected stayed behind the cell that
\* remained there, and the count went down by a sunk or decayed cell
C30_Witness ==
    /\ \E p, q \in Written :
          /\ p # q
          /\ log.fate[p].moved
          /\ log.fate[p].to = q
          /\ log.fate[q].moved
    /\ \E p \in DOMAIN log.edges, q \in Written :
          /\ p # q
          /\ log.edges[p].tgt = q
          /\ ~log.fate[q].moved
          /\ ~log.fate[p].moved
    /\ Sunk \cup Decayed # {}

\* ---------------------------------------------------------------------------
\* C31  A cell spawned in a tick takes part in that tick's movement.

\* the tile beyond the forward tile of emitter i, in the emitter's direction
Beyond(i) ==
    <<emitters[i].x + 2 * emitters[i].dx, emitters[i].y + 2 * emitters[i].dy>>

\* C31 as stated: when the forward tile of an emitter and the tile beyond it
\* are free open ground at the start of a tick, the state after the tick has
\* the new cell, of age 0, on the tile beyond and no cell on the forward tile.
C31_SpawnMoves_Stated ==
    ticks > 0 =>
        \A i \in DOMAIN emitters :
            Spawnable(Forward(i)) /\ Spawnable(Beyond(i)) =>
                /\ Beyond(i) \in DOMAIN water
                /\ water[Beyond(i)].age = 0
                /\ Forward(i) \notin DOMAIN water

\* emitter i spawned on its forward tile f with the tile beyond free, the new
\* cell has the tile beyond to itself (no emitter spawned there and no other
\* cell proposes it), no cell proposes f, and the movement leaves no cell of
\* the emitter on a tile next to the emitter
SpawnMovesFreely(i) ==
    /\ Spawnable(Forward(i))
    /\ Spawnable(Beyond(i))
    /\ FirstFacing(Forward(i)) = emitters[i]
    /\ \A j \in DOMAIN emitters : Forward(j) # Beyond(i)
    /\ Proposers(Beyond(i)) = {Forward(i)}
    /\ Proposers(Forward(i)) = {}
    /\ \A p \in DOMAIN log.next_water :
          log.next_water[p].emitter_id = emitters[i].id => Manhattan(p, emitters[i]) > 1

\* C31 (amended): when the forward tile f of an emitter and the tile beyond it
\* are free open ground at the start of a tick, the emitter is the first of the
\* list that faces f, no emitter faces the tile beyond and the new cell is the
\* only cell proposing the tile beyond while no cell proposes f, and the
\* movement leaves no cell of the emitter next to the emitter (pruning would
\* keep that cell and could drop the new one), the state after the tick has the
\* new cell (the emitter's direction and id, age 0) on the tile beyond and no
\* cell on f.
C31_SpawnMoves ==
    ticks > 0 =>
        \A i \in DOMAIN emitters :
            SpawnMovesFreely(i) =>
                /\ Beyond(i) \in DOMAIN water
                /\ water[Beyond(i)] = WaterCell(emitters[i].dx, emitters[i].dy, 0,
                                                emitters[i].id, TRUE)
                /\ Forward(i) \notin DOMAIN water

\* a tick that started with water, in which an emitter spawned with both tiles
\* free and its new cell moved on to the tile beyond
C31_Witness ==
    /\ ticks > 0
    /\ \E i \in DOMAIN emitters :
          /\ SpawnMovesFreely(i)
          /\ Beyond(i) \in DOMAIN water
          /\ log.fate[Forward(i)].moved
          /\ water[Beyond(i)].age = 0
    /\ DOMAIN log.before # {}

\* ---------------------------------------------------------------------------
\* C32  Head-on swap.

\* the tile cell p of the water after spawning faces
Faced(p) == <<p[1] + log.spawned[p].dx, p[2] + log.spawned[p].dy>>

\* the pairs of cells on adjacent tiles that face each other, each the only
\* proposer of the other's tile
HeadOn ==
    {pq \in (DOMAIN log.spawned) \X (DOMAIN log.spawned) :
        /\ Faced(pq[1]) = pq[2]
        /\ Faced(pq[2]) = pq[1]
        /\ Proposers(pq[2]) = {pq[1]}
        /\ Proposers(pq[1]) = {pq[2]}}

\* C32 as stated: two cells on adjacent tiles facing each other, each the only
\* proposer of the other's tile, exchange tiles in one tick: after the tick
\* each is on the other's tile.
C32_HeadOnSwap_Stated ==
    \A pq \in HeadOn :
        /\ pq[2] \in DOMAIN water
        /\ water[pq[2]].emitter_id = log.spawned[pq[1]].emitter_id
        /\ water[pq[2]].dx = log.spawned[pq[1]].dx
        /\ water[pq[2]].dy = log.spawned[pq[1]].dy

\* C32 (amended): two cells on adjacent tiles facing each other, each the only
\* proposer of the other's tile, exchange tiles in the movement of the tick:
\* both moves succeed, and each cell is written to the other's tile of the next
\* map with its own direction and emitter and age 0; after the pruning each of
\* the two tiles holds the cell written to it or no cell.
C32_HeadOnSwap ==
    \A pq \in HeadOn :
        LET p == pq[1]
            q == pq[2]
        IN /\ log.fate[p].ok
           /\ log.fate[p].moved
           /\ log.fate[p].to = q
           /\ q \in DOMAIN log.next_water
           /\ log.next_water[q].dx = log.spawned[p].dx
           /\ log.next_water[q].dy = log.spawned[p].dy
           /\ log.next_water[q].emitter_id = log.spawned[p].emitter_id
           /\ log.next_water[q].age = 0
           /\ q \in DOMAIN water => water[q] = log.next_water[q]

\* two cells facing each other swapped in the last tick and both are part of
\* the water after it
C32_Witness ==
    \E pq \in HeadOn : pq[1] \in DOMAIN water /\ pq[2] \in DOMAIN water

\* ---------------------------------------------------------------------------
\* C33  WaterPruner.prune only removes.

\* a is a sub-map of b: every key of a is a key of b with the identical value
SubMap(a, b) == DOMAIN a \subseteq DOMAIN b /\ \A p \in DOMAIN a : a[p] = b[p]

\* C33: the result of prune is a sub-map of its input (every returned
\* coordinate was in the input with the identical WaterCell), and the call
\* modifies neither the input map nor the emitter list.
C33_PruneOnlyRemoves ==
    [][/\ pruned.calls = 0 =>
            /\ SubMap(pruned'.filtered, pruned.next_water)
            /\ pruned'.next_water = pruned.next_water
       /\ pruned.calls = 1 =>
            /\ SubMap(pruned'.again, pruned.filtered)
            /\ pruned'.filtered = pruned.filtered
       /\ emitters' = emitters]_vars

\* a call of prune that removed a cell of an emitter of the list, removed a
\* cell that belongs to no emitter of the list, and returned a cell
C33_Witness ==
    /\ pruned.calls = 1
    /\ pruned.filtered # EmptyMap
    /\ \E p \in DOMAIN pruned.next_water \ DOMAIN pruned.filtered :
          \E i \in DOMAIN emitters : emitters[i].id = pruned.next_water[p].emitter_id
    /\ \E p \in DOMAIN pruned.next_water \ DOMAIN pruned.filtered :
          \A i \in DOMAIN emitters : emitters[i].id # pruned.next_water[p].emitter_id

\* ---------------------------------------------------------------------------
\* C34  WaterPruner.prune is idempotent: for every water map m and emitter
\*      list, prune(prune(m)) = prune(m).
C34_PruneIdempotent == pruned.calls = 2 => pruned.again = pruned.filtered

\* prune was called on its own result, which holds cells of two owners and is
\* smaller than the map of the first call
C34_Witness ==
    /\ pruned.calls = 2
    /\ DOMAIN pruned.filtered # DOMAIN pruned.next_water
    /\ \E p, q \in DOMAIN pruned.filtered :
          pruned.filtered[p].emitter_id # pruned.filtered[q].emitter_id

\* ---------------------------------------------------------------------------
\* C35  Pruning never removes an emitter's nearest water.

\* the cells of the map handed to prune that emitter e owns
Owned(e) == {p \in DOMAIN pruned.next_water : pruned.next_water[p].emitter_id = e.id}

\* the cells of emitter e at minimum Manhattan distance to its coordinate
NearestOwned(e) == {p \in Owned(e) : \A q \in Owned(e) : Manhattan(p, e) <= Manhattan(q, e)}

\* C35: for every emitter of the list that owns a cell of the input, all of
\* its cells at minimum Manhattan distance to the emitter's coordinate are in
\* the result, in whatever connected components they lie, so the emitter owns
\* a cell afterwards.
C35_NearestSurvive ==
    pruned.calls >= 1 =>
        \A i \in DOMAIN emitters :
            Owned(emitters[i]) # {} =>
                /\ NearestOwned(emitters[i]) \subseteq DOMAIN pruned.filtered
                /\ \E p \in DOMAIN pruned.filtered :
                      pruned.filtered[p].emitter_id = emitters[i].id

\* an emitter has two nearest cells that do not touch, both were kept, and a
\* farther cell of the emitter was removed
C35_Witness ==
    /\ pruned.calls = 1
    /\ \E i \in DOMAIN emitters :
          /\ \E p, q \in NearestOwned(emitters[i]) : Dist(p, q) > 1
          /\ NearestOwned(emitters[i]) \subseteq DOMAIN pruned.filtered
          /\ Owned(emitters[i]) \ DOMAIN pruned.filtered # {}

\* ---------------------------------------------------------------------------
\* C36  The script command add and the occupancy invariant under scripts.

C37_DecaySteps ==
    read_steps # None =>
        /\ read_steps >= 1
        /\ read_steps * step_ms >= decay_ms
        /\ read_steps = 1 \/ (read_steps - 1) * step_ms < decay_ms
        /\ (step_ms = 120 /\ decay_ms = 250) => read_steps = 3

====
